---- MODULE Spec2Model ----
(***************************************************************************)
(* A model of the AST-obfuscator deobfuscation engine: the transforms of   *)
(* packages/tool (the sequence splitter and the passes of class Deob),     *)
(* the scope utilities and the fix-point runner they are driven by, and    *)
(* the sandboxed executor of the decoder calls (class VMDecoder).          *)
(*                                                                         *)
(* One run of the model applies one component to one input.  The variable  *)
(* mode names the component; the other variables are the state that        *)
(* component works on:                                                     *)
(*   input    the AST handed to the component (kept for reference)         *)
(*   ast      the AST being rewritten (this.ast / the traversed tree)      *)
(*   cur      the position of the traversal in ast                         *)
(*   changes  the state.changes counter of the running transform           *)
(*   run      how many times the transform has been started on ast         *)
(*   revisit  whether the traversal driver visits nodes inserted during    *)
(*            the walk (it is an external collaborator; both behaviours    *)
(*            are admitted)                                                *)
(*   call     the arguments of the operation invoked, for the components   *)
(*            that are called directly (renameFast, renameParameters), and *)
(*            the state object of the caller of unminify                   *)
(*   pc       where a component that runs in several steps stands          *)
(*   log      the transforms run so far, in the order they were run        *)
(*   scope    what the scopes of the traversal hold beside the AST (the    *)
(*            bindings, the unique names made so far)                      *)
(*   globalState  the module-level state of utils/ast.ts: the recorded     *)
(*            objects and the list of decoder functions                    *)
(***************************************************************************)
EXTENDS Integers, Sequences, FiniteSets, TLC

VARIABLES mode, input, ast, cur, changes, run, revisit, call, pc, log, scope, globalState

vars == <<mode, input, ast, cur, changes, run, revisit, call, pc, log, scope,
          globalState>>

\* globalState as the constructor of Deob sets it
EmptyState == [objectVariables |-> {}, decryptFnList |-> <<>>]

(***************************************************************************)
(* Bounds of the model.                                                    *)
(***************************************************************************)
\* longest comma-expression in an input
MaxSeqLen == 3

(***************************************************************************)
(* Expressions.  Every expression is a record with the same fields:        *)
(* t the node type, v the value (the number of an identifier, the          *)
(* operator of a unary or binary expression, the value of a literal), es   *)
(* the operand list.                                                       *)
(***************************************************************************)
Null == [t |-> "null", v |-> 0, es |-> <<>>]

Id(k) == [t |-> "Identifier", v |-> k, es |-> <<>>]

SequenceExpression(es) == [t |-> "SequenceExpression", v |-> 0, es |-> es]

unaryExpression(operator, argument) ==
    [t |-> "UnaryExpression", v |-> operator, es |-> <<argument>>]

\* the unary expression  void e
UnaryVoid(e) == unaryExpression("void", e)

isSequenceExpression(e) == e.t = "SequenceExpression"

isUnaryVoid(e) == e.t = "UnaryExpression" /\ e.v = "void"

(***************************************************************************)
(* Statements.  x is the expression slot the sequence transform looks at   *)
(* (expression, argument, test, discriminant, right, the init of the first *)
(* declarator, or the init expression of a for); u is the update of a for; *)
(* decl is the number of declarators (of a VariableDeclaration, or of the  *)
(* declaration that is the init of a for; 0: no declaration); body is the  *)
(* list of child statements and bk tells what holds them: "none",          *)
(* "empty" (an EmptyStatement), "single" (one statement that is not a      *)
(* block) or "block"; q marks a node the driver has queued for a visit.    *)
(***************************************************************************)
Stmt(type, x) ==
    [type |-> type, x |-> x, u |-> Null, decl |-> 0,
     body |-> <<>>, bk |-> "none", q |-> FALSE]

expressionStatement(e) == Stmt("ExpressionStatement", e)

\* t.blockStatement(statements) as the body of a statement s
blockStatement(s, statements) == [s EXCEPT !.body = statements, !.bk = "block"]

(***************************************************************************)
(* The path operations the sequence transform uses, on a container c (a    *)
(* statement list) and the index i of the visited node in it.  A node the  *)
(* path API inserts is queued by a driver that revisits insertions.        *)
(***************************************************************************)
queued(statements) ==
    [k \in 1..Len(statements) |-> [statements[k] EXCEPT !.q = revisit]]

insertBefore(c, i, statements) ==
    SubSeq(c, 1, i - 1) \o queued(statements) \o SubSeq(c, i, Len(c))

replaceWithMultiple(c, i, statements) ==
    SubSeq(c, 1, i - 1) \o queued(statements) \o SubSeq(c, i + 1, Len(c))

\* expressions.map(expr => t.expressionStatement(expr))
map(expressions) ==
    [k \in 1..Len(expressions) |-> expressionStatement(expressions[k])]

\* a slip: expressions.shift() in place of expressions.pop()
shift(expressions) == expressions[1]

\* the value of expressions.pop(), and the array it leaves behind
pop(expressions) == expressions[Len(expressions)]

popped(expressions) == SubSeq(expressions, 1, Len(expressions) - 1)

(***************************************************************************)
(* The exit handlers of the sequence transform.  Each gives the container  *)
(* after the handler (c), the index of the sibling the walk goes on with   *)
(* (next) and the number of edits it counted (changes).                    *)
(***************************************************************************)
NoEdit(c, i) == [c |-> c, next |-> i + 1, changes |-> 0]

\* the shape shared by the if / switch / throw / for-in handlers: the
\* last expression stays in the slot, the others go before the statement
SplitLeading(c, i) ==
    IF isSequenceExpression(c[i].x)
    THEN LET expressions == c[i].x.es
             statements == map(popped(expressions))
         IN  [c |-> insertBefore([c EXCEPT ![i].x = pop(expressions)],
                                 i, statements),
              next |-> i + Len(statements) + 1,
              changes |-> 1]
    ELSE NoEdit(c, i)

ExpressionStatementExit(c, i) ==
    IF isSequenceExpression(c[i].x)
    THEN LET statements == map(c[i].x.es)
         IN  [c |-> replaceWithMultiple(c, i, statements),
              next |-> i + Len(statements),
              changes |-> 1]
    ELSE NoEdit(c, i)

ReturnStatementExit(c, i) ==
    IF isSequenceExpression(c[i].x)
    THEN SplitLeading(c, i)
    ELSE IF isUnaryVoid(c[i].x) /\ isSequenceExpression(c[i].x.es[1])
    THEN LET statements == map(c[i].x.es[1].es)
         IN  [c |-> insertBefore([c EXCEPT ![i].x = Null], i, statements),
              next |-> i + Len(statements) + 1,
              changes |-> 1]
    ELSE NoEdit(c, i)

IfStatementExit(c, i) == SplitLeading(c, i)

SwitchStatementExit(c, i) == SplitLeading(c, i)

ThrowStatementExit(c, i) == SplitLeading(c, i)

ForInStatementExit(c, i) == SplitLeading(c, i)

\* the first if of the handler: a sequence as init
ForInit(s) ==
    IF s.decl = 0 /\ isSequenceExpression(s.x)
    THEN [s |-> [s EXCEPT !.x = Null], statements |-> map(s.x.es), changes |-> 1]
    ELSE [s |-> s, statements |-> <<>>, changes |-> 0]

\* the second if of the handler: a sequence as update, over an empty body
ForUpdate(s) ==
    IF isSequenceExpression(s.u) /\ s.bk = "empty"
    THEN [s |-> blockStatement([s EXCEPT !.u = pop(s.u.es)], map(popped(s.u.es))),
          changes |-> 1]
    ELSE [s |-> s, changes |-> 0]

ForStatementExit(c, i) ==
    LET a == ForInit(c[i])
        b == ForUpdate(a.s)
    IN  [c |-> IF a.changes > 0
               THEN insertBefore([c EXCEPT ![i] = b.s], i, a.statements)
               ELSE [c EXCEPT ![i] = b.s],
         next |-> i + Len(a.statements) + 1,
         changes |-> a.changes + b.changes]

\* c[i] is a VariableDeclaration, or the for statement whose init is one:
\* in both cases the statements go before c[i]
VariableDeclarationExit(c, i) ==
    IF c[i].decl = 1 THEN SplitLeading(c, i) ELSE NoEdit(c, i)

(***************************************************************************)
(* The walk.  cur = [i, j]: i is the index of a statement of ast, and j    *)
(* the node of it that is visited next: -1 the declaration that is the     *)
(* init of a for, k > 0 the k-th child statement, 0 the statement itself   *)
(* (handlers run on exit, so a statement comes after its children).        *)
(***************************************************************************)
AfterInit(s) == IF Len(s.body) > 0 THEN 1 ELSE 0

First(s) == IF s.type = "ForStatement" /\ s.decl > 0 THEN -1 ELSE AfterInit(s)

Enter(a, i) == [i |-> i, j |-> IF i <= Len(a) THEN First(a[i]) ELSE 0]

QTop == {p \in 1..Len(ast) : ast[p].q}

QIn(p) == {k \in 1..Len(ast[p].body) : ast[p].body[k].q}

NoneQueued == QTop = {} /\ \A p \in 1..Len(ast) : QIn(p) = {}

Min(S) == CHOOSE m \in S : \A n \in S : m <= n

Finished == cur.i > Len(ast) /\ NoneQueued

Visiting(type) ==
    /\ mode = "sequence"
    /\ NoneQueued
    /\ cur.i <= Len(ast)
    /\ type = (IF cur.j = -1 THEN "VariableDeclaration"
               ELSE IF cur.j = 0 THEN ast[cur.i].type
               ELSE ast[cur.i].body[cur.j].type)

\* the statement list that holds the visited node, and its index there
Container == IF cur.j <= 0 THEN ast ELSE ast[cur.i].body

Index == IF cur.j <= 0 THEN cur.i ELSE cur.j

\* the walk takes the outcome r of a handler run on Container at Index
Apply(r) ==
    /\ IF cur.j = 0
       THEN /\ ast' = r.c
            /\ cur' = Enter(r.c, r.next)
       ELSE /\ ast' = [ast EXCEPT ![cur.i].body = r.c,
                                  ![cur.i].bk = IF Len(r.c) > 1 THEN "block" ELSE @]
            /\ cur' = [cur EXCEPT !.j = IF r.next <= Len(r.c) THEN r.next ELSE 0]
    /\ changes' = changes + r.changes
    /\ UNCHANGED <<mode, input, run, revisit, call, pc, log, scope, globalState>>

ExpressionStatement == Visiting("ExpressionStatement") /\ Apply(ExpressionStatementExit(Container, Index))

ReturnStatement == Visiting("ReturnStatement") /\ Apply(ReturnStatementExit(Container, Index))

IfStatement == Visiting("IfStatement") /\ Apply(IfStatementExit(Container, Index))

SwitchStatement == Visiting("SwitchStatement") /\ Apply(SwitchStatementExit(Container, Index))

ThrowStatement == Visiting("ThrowStatement") /\ Apply(ThrowStatementExit(Container, Index))

ForInStatement == Visiting("ForInStatement") /\ Apply(ForInStatementExit(Container, Index))

ForStatement == Visiting("ForStatement") /\ Apply(ForStatementExit(Container, Index))

VariableDeclaration ==
    /\ Visiting("VariableDeclaration")
    /\ IF cur.j = -1
       THEN LET r == VariableDeclarationExit(ast, cur.i)
            IN  /\ ast' = r.c
                /\ cur' = [i |-> r.next - 1, j |-> AfterInit(ast[cur.i])]
                /\ changes' = changes + r.changes
                /\ UNCHANGED <<mode, input, run, revisit, call, pc, log, scope, globalState>>
       ELSE Apply(VariableDeclarationExit(Container, Index))

\* a node without a handler
OtherStatement ==
    /\ \E type \in {"DebuggerStatement", "BreakStatement"} : Visiting(type)
    /\ Apply(NoEdit(Container, Index))

\* the driver visits a node that was inserted during the walk: always an
\* expression statement.  The order among queued nodes does not matter to
\* the result (a handler only reads its own node); the first one is taken.
Requeued ==
    /\ mode = "sequence"
    /\ ~NoneQueued
    /\ IF QTop # {}
       THEN LET p == Min(QTop)
                r == ExpressionStatementExit([ast EXCEPT ![p].q = FALSE], p)
            IN  /\ ast' = r.c
                /\ cur' = [cur EXCEPT !.i = @ + Len(r.c) - Len(ast)]
                /\ changes' = changes + r.changes
       ELSE LET p == Min({n \in 1..Len(ast) : QIn(n) # {}})
                k == Min(QIn(p))
                r == ExpressionStatementExit([ast[p].body EXCEPT ![k].q = FALSE], k)
            IN  /\ ast' = [ast EXCEPT ![p].body = r.c]
                /\ cur' = IF cur.i = p /\ cur.j > 0
                          THEN [cur EXCEPT !.j = @ + Len(r.c) - Len(ast[p].body)]
                          ELSE cur
                /\ changes' = changes + r.changes
    /\ UNCHANGED <<mode, input, run, revisit, call, pc, log, scope, globalState>>

\* the transform is applied again to its own output, with fresh state
ApplyAgain ==
    /\ mode = "sequence"
    /\ Finished
    /\ run = 1
    /\ run' = 2
    /\ changes' = 0
    /\ cur' = Enter(ast, 1)
    /\ UNCHANGED <<mode, input, ast, revisit, call, pc, log, scope, globalState>>

(***************************************************************************)
(* The inputs of the sequence transform: one statement with a              *)
(* comma-expression in one of its slots, alone, between two statements     *)
(* without one, or followed by a second such statement.                    *)
(***************************************************************************)
\* e1, ..., en
Flat(n) == SequenceExpression([k \in 1..n |-> Id(k)])

\* e1, e2 with the k-th operand itself a parenthesised comma-expression
Nested(k) ==
    SequenceExpression([m \in 1..2 |->
        IF m = k THEN SequenceExpression(<<Id(10 * m + 1), Id(10 * m + 2)>>)
        ELSE Id(m)])

Sequences == {Flat(n) : n \in 2..MaxSeqLen} \cup {Nested(k) : k \in 1..2}

SlotTypes ==
    {"ExpressionStatement", "ReturnStatement", "IfStatement", "SwitchStatement",
     "ThrowStatement", "ForInStatement"}

Plain(k) == expressionStatement(Id(k))

Children ==
    {Stmt("BreakStatement", Null), expressionStatement(Flat(2)),
     Stmt("ReturnStatement", Flat(2))}

WithBody(s, bk, body) == [s EXCEPT !.bk = bk, !.body = body]

Simple ==
    {Stmt(type, x) : type \in SlotTypes, x \in Sequences \cup {Id(1)}}
    \cup {Stmt("ReturnStatement", x) : x \in {Null, UnaryVoid(Flat(2)), UnaryVoid(Id(1))}}
    \cup {[Stmt("VariableDeclaration", x) EXCEPT !.decl = n] :
             x \in Sequences \cup {Id(1)}, n \in 1..2}

Compound ==
    {WithBody(Stmt(type, x), bk, <<ch>>) :
        type \in {"IfStatement", "ForInStatement"}, x \in {Id(1), Flat(2)},
        bk \in {"single", "block"}, ch \in Children}

Fors ==
    {[WithBody(Stmt("ForStatement", x), b[1], b[2]) EXCEPT !.decl = d[1], !.u = d[2]] :
        x \in {Null, Flat(2), Nested(2)},
        d \in ({0} \X {Null, Flat(MaxSeqLen), Nested(1)}) \cup ({1, 2} \X {Null}),
        b \in {<<"empty", <<>> >>, <<"block", <<expressionStatement(Flat(2))>> >>}}

Hosts == Simple \cup Compound \cup Fors

Programs ==
    {<<h>> : h \in Hosts}
    \cup {<<Plain(8), h, Stmt("DebuggerStatement", Null)>> : h \in Hosts}
    \cup {<<h, g>> : h \in Simple, g \in {Stmt(type, Flat(2)) : type \in SlotTypes}}

SequenceInit ==
    /\ mode = "sequence"
    /\ input \in Programs
    /\ ast = input
    /\ cur = Enter(input, 1)
    /\ changes = 0
    /\ run = 1
    /\ revisit \in BOOLEAN
    /\ call = <<>>
    /\ pc = "walk" /\ log = <<>> /\ scope = <<>>
    /\ globalState = EmptyState

SequenceNext ==
    \/ ExpressionStatement
    \/ ReturnStatement
    \/ IfStatement
    \/ SwitchStatement
    \/ ThrowStatement
    \/ ForInStatement
    \/ ForStatement
    \/ VariableDeclaration
    \/ OtherStatement
    \/ Requeued
    \/ ApplyAgain

SpecSequence == SequenceInit /\ [][SequenceNext]_vars

\* the same, under a driver that visits every node inserted during the walk
SequenceRevisitInit == SequenceInit /\ revisit = TRUE

SpecSequenceRevisit == SequenceRevisitInit /\ [][SequenceNext]_vars

(***************************************************************************)
(* C1.  When the sequence transform visits a statement whose slot holds    *)
(* the comma-expression e1, ..., en (an expression statement, a return, a  *)
(* throw, an if, a switch, a for-in, or a declaration with one declarator, *)
(* which may be the init of a for), then after the handler the statement   *)
(* list holds, where the statement was, expression statements for e1 to    *)
(* e(n-1) in that order and then the statement with en in the slot; the    *)
(* statements before and after it are the same as before, and so is every  *)
(* other statement list.                                                   *)
(***************************************************************************)
Unq(s) == [s EXCEPT !.q = FALSE]

C1Types == SlotTypes \cup {"VariableDeclaration"}

\* the statement list c, visited at i, has become d as C1 says
C1Split(c, i, d) ==
    LET e == c[i].x.es
        n == Len(e)
    IN  /\ Len(d) = Len(c) + n - 1
        /\ \A k \in 1..(i - 1) : d[k] = c[k]
        /\ \A k \in 1..(n - 1) : Unq(d[i + k - 1]) = expressionStatement(e[k])
        /\ Unq(d[i + n - 1]) = [c[i] EXCEPT !.x = e[n]]
        /\ \A k \in (i + 1)..Len(c) : d[k + n - 1] = c[k]

C1SequenceSplit ==
    [][ /\ mode = "sequence" /\ NoneQueued /\ cur.i <= Len(ast)
        /\ ast' # ast \/ cur' # cur
        => LET top == cur.j <= 0
               c == IF top THEN ast ELSE ast[cur.i].body
               i == IF top THEN cur.i ELSE cur.j
               s == c[i]
               kind == IF cur.j = -1 THEN "VariableDeclaration" ELSE s.type
           IN  (/\ kind \in C1Types
                /\ isSequenceExpression(s.x)
                /\ kind = "VariableDeclaration" => s.decl = 1)
               => IF top
                  THEN C1Split(ast, i, ast')
                  ELSE /\ Len(ast') = Len(ast)
                       /\ \A k \in 1..Len(ast) : k # cur.i => ast'[k] = ast[k]
                       /\ C1Split(c, i, ast'[cur.i].body)
                       /\ [ast'[cur.i] EXCEPT !.body = <<>>, !.bk = "block"]
                            = [ast[cur.i] EXCEPT !.body = <<>>, !.bk = "block"]
      ]_vars

\* `e1, e2, e3` as the test of an if, followed by `throw e1, e2`: both split
C1Witness ==
    /\ mode = "sequence" /\ run = 1 /\ Finished /\ changes = 2
    /\ input = <<Stmt("IfStatement", Flat(3)), Stmt("ThrowStatement", Flat(2))>>
    /\ ast = <<Plain(1), Plain(2), Stmt("IfStatement", Id(3)),
               Plain(1), Stmt("ThrowStatement", Id(2))>>

(***************************************************************************)
(* C6.  Idempotence of the sequence transform: when the transform is       *)
(* applied a second time to its own output, the second application ends    *)
(* with changes = 0.                                                       *)
(***************************************************************************)
C6SecondRunNoChange ==
    (mode = "sequence" /\ run = 2 /\ Finished) => changes = 0

(***************************************************************************)
(* Scope utilities: renameFast and renameParameters.                       *)
(*                                                                         *)
(* A program is one scope: bindings is the list of declared names (the     *)
(* declaring identifier of binding k, and its key in scope.bindings), the  *)
(* first params of them the parameters of the function, and occs the       *)
(* identifier occurrences: name, the binding b the occurrence belongs to   *)
(* (0: a free variable) and its kind, "reference" or the kind of constant  *)
(* violation.  A name is a base and the number us of the candidate made    *)
(* from it: 0 the base itself, 1 `_base`, 2 the next candidate, ...        *)
(***************************************************************************)
\* most bindings in an input scope
MaxBindings == 3

\* longest list of names given to renameParameters
MaxNames == 2

N(base) == [base |-> base, us |-> 0]

U(base) == [base |-> base, us |-> 1]

Bound(prog) == {prog.bindings[k] : k \in 1..Len(prog.bindings)}

\* scope.getBinding(name): the binding a name resolves to, 0 when free
getBinding(prog, name) ==
    IF name \in Bound(prog)
    THEN CHOOSE k \in 1..Len(prog.bindings) : prog.bindings[k] = name
    ELSE 0

\* the fresh name `_newName`, prefixed further while it is still taken
generateUid(prog, newName) ==
    LET free == {j \in 1..(Len(prog.bindings) + 1) :
                    [newName EXCEPT !.us = @ + j] \notin Bound(prog)}
    IN  [newName EXCEPT !.us = @ + Min(free)]

\* a slip: the constant violations are left with the old name
renameReferencesOnly(prog, k, name) ==
    [prog EXCEPT !.bindings[k] = name,
                 !.occs = [o \in 1..Len(prog.occs) |->
                              IF prog.occs[o].b = k /\ prog.occs[o].kind = "reference"
                              THEN [prog.occs[o] EXCEPT !.name = name]
                              ELSE prog.occs[o]]]

\* the declaring identifier and every reference and violation path of
\* binding k get the name
renameSites(prog, k, name) ==
    [prog EXCEPT !.bindings[k] = name,
                 !.occs = [o \in 1..Len(prog.occs) |->
                              IF prog.occs[o].b = k
                              THEN [prog.occs[o] EXCEPT !.name = name]
                              ELSE prog.occs[o]]]

renameFast(prog, binding, newName) ==
    LET existing == getBinding(prog, newName)
        cleared == IF existing # 0
                   THEN renameSites(prog, existing, generateUid(prog, newName))
                   ELSE prog
    IN  renameSites(cleared, binding, newName)

\* a slip: the loop stops one parameter early
renameParametersShort(prog, names) ==
    LET m == (IF prog.params < Len(names) THEN prog.params ELSE Len(names)) - 1
        Step[i \in 0..m] ==
            IF i = 0 THEN prog ELSE renameFast(Step[i - 1], i, names[i])
    IN  Step[m]

renameParameters(prog, names) ==
    LET m == IF prog.params < Len(names) THEN prog.params ELSE Len(names)
        Step[i \in 0..m] ==
            IF i = 0 THEN prog ELSE renameFast(Step[i - 1], i, names[i])
    IN  Step[m]

(***************************************************************************)
(* The inputs: scopes of up to MaxBindings bindings with distinct names,   *)
(* the uses of each binding, and possibly one free variable.               *)
(***************************************************************************)
DeclNames == {N("a"), N("b"), N("c"), U("b")}

NewNames == {N("b"), U("b"), N("x")}

Violations ==
    <<"VariableDeclarator", "UpdateExpression", "ArrayPattern", "ObjectPattern",
      "ForOfStatement", "ForInStatement">>

\* the uses of the first binding, and of the others
Uses1 == {<<>>, <<"reference">>, <<"reference", "UpdateExpression">>, Violations}

Uses == {<<>>, <<"reference">>}

BindingLists ==
    UNION {{bs \in [1..n -> DeclNames] : \A i, j \in 1..n : i # j => bs[i] # bs[j]} :
              n \in 1..MaxBindings}

\* the occurrences of bindings k..Len(bs), binding j used as uses[j] says
RECURSIVE OccsFrom(_, _, _)
OccsFrom(bs, uses, k) ==
    IF k > Len(bs) THEN <<>>
    ELSE [j \in 1..Len(uses[k]) |-> [name |-> bs[k], b |-> k, kind |-> uses[k][j]]]
         \o OccsFrom(bs, uses, k + 1)

FreeOccs(bs) ==
    {<<>>} \cup {<<[name |-> f, b |-> 0, kind |-> "reference"]>> :
                    f \in {N("b"), U("b")} \ {bs[k] : k \in 1..Len(bs)}}

Scopes(first, others) ==
    UNION {{[bindings |-> bs, occs |-> OccsFrom(bs, uses, 1) \o free, params |-> 0] :
               uses \in {u \in [1..Len(bs) -> first \cup others] :
                            \A k \in 2..Len(bs) : u[k] \in others},
               free \in FreeOccs(bs)} :
           bs \in BindingLists}

ParamNames == {N("b"), N("x"), N("y")}

NameLists == UNION {[1..n -> ParamNames] : n \in 1..MaxNames}

RenameFastInit ==
    /\ mode = "renameFast"
    /\ input \in Scopes(Uses1, Uses)
    /\ ast = input
    /\ run = 0
    /\ call = <<>>
    /\ cur = <<>> /\ changes = 0 /\ revisit = FALSE
    /\ pc = "call" /\ log = <<>> /\ scope = <<>>
    /\ globalState = EmptyState

RenameParametersInit ==
    /\ mode = "renameParameters"
    /\ input \in {[p EXCEPT !.params = n] :
                     p \in Scopes(Uses, Uses), n \in 1..MaxBindings}
    /\ input.params <= Len(input.bindings)
    /\ ast = input
    /\ run = 0
    /\ call = <<>>
    /\ cur = <<>> /\ changes = 0 /\ revisit = FALSE
    /\ pc = "call" /\ log = <<>> /\ scope = <<>>
    /\ globalState = EmptyState

\* renameFast(binding, newName), binding any binding of the scope
RenameFast ==
    /\ mode = "renameFast"
    /\ run = 0
    /\ \E binding \in 1..Len(ast.bindings), newName \in NewNames :
          /\ ast' = renameFast(ast, binding, newName)
          /\ call' = [binding |-> binding, newName |-> newName]
    /\ run' = 1
    /\ UNCHANGED <<mode, input, cur, changes, revisit, pc, log, scope, globalState>>

\* renameParameters(fn, names), fn the function whose scope ast is
RenameParameters ==
    /\ mode = "renameParameters"
    /\ run = 0
    /\ \E names \in NameLists :
          /\ ast' = renameParameters(ast, names)
          /\ call' = [names |-> names]
    /\ run' = 1
    /\ UNCHANGED <<mode, input, cur, changes, revisit, pc, log, scope, globalState>>

SpecRenameFast == RenameFastInit /\ [][RenameFast]_vars

SpecRenameParameters == RenameParametersInit /\ [][RenameParameters]_vars

(***************************************************************************)
(* C2.  After renameFast(binding, newName) the declaring identifier of the *)
(* target binding and every reference and constant violation of it are     *)
(* named newName; and a different binding that had the name newName has,   *)
(* with all its uses, a fresh name: a candidate made from newName that no  *)
(* binding of the input had, every earlier candidate being taken.          *)
(***************************************************************************)
C2RenameFast ==
    (mode = "renameFast" /\ run = 1) =>
        LET t == call.binding
            n == call.newName
        IN  /\ ast.bindings[t] = n
            /\ \A o \in 1..Len(ast.occs) : ast.occs[o].b = t => ast.occs[o].name = n
            /\ \A k \in 1..Len(input.bindings) :
                  (k # t /\ input.bindings[k] = n) =>
                      LET f == ast.bindings[k]
                      IN  /\ f.base = n.base
                          /\ f.us > n.us
                          /\ f \notin Bound(input)
                          /\ \A j \in (n.us + 1)..(f.us - 1) :
                                [base |-> n.base, us |-> j] \in Bound(input)
                          /\ \A o \in 1..Len(ast.occs) :
                                ast.occs[o].b = k => ast.occs[o].name = f

\* `let a = 1; let b = a;` with a renamed to b: `let b = 1; let _b = b;`
C2Witness ==
    /\ mode = "renameFast" /\ run = 1
    /\ input.bindings = <<N("a"), N("b")>>
    /\ input.occs = <<[name |-> N("a"), b |-> 1, kind |-> "reference"]>>
    /\ call = [binding |-> 1, newName |-> N("b")]
    /\ ast.bindings = <<N("b"), U("b")>>
    /\ ast.occs = <<[name |-> N("b"), b |-> 1, kind |-> "reference"]>>

(***************************************************************************)
(* C3, as claimed.  After renameParameters(fn, names) the parameters       *)
(* before min(fn.params.length, names.length) have the names given, with   *)
(* all their uses, and the parameters from names.length on have the names  *)
(* they had.                                                               *)
(***************************************************************************)
Applied == IF input.params < Len(call.names) THEN input.params ELSE Len(call.names)

C3Effect ==
    /\ \A i \in 1..Applied :
          /\ ast.bindings[i] = call.names[i]
          /\ \A o \in 1..Len(ast.occs) :
                ast.occs[o].b = i => ast.occs[o].name = call.names[i]
    /\ \A i \in (Len(call.names) + 1)..input.params :
          /\ ast.bindings[i] = input.bindings[i]
          /\ \A o \in 1..Len(ast.occs) :
                ast.occs[o].b = i => ast.occs[o].name = input.bindings[i]

C3RenameParameters == (mode = "renameParameters" /\ run = 1) => C3Effect

(***************************************************************************)
(* C3, amended.  The same, provided the names applied are pairwise         *)
(* distinct and none of them is the name of a binding of the scope other   *)
(* than the parameters being renamed.                                      *)
(***************************************************************************)
C3NoClash ==
    /\ \A i, j \in 1..Applied : i # j => call.names[i] # call.names[j]
    /\ \A i \in 1..Applied : \A k \in (Applied + 1)..Len(input.bindings) :
          input.bindings[k] # call.names[i]

C3RenameParametersNoClash ==
    (mode = "renameParameters" /\ run = 1 /\ C3NoClash) => C3Effect

\* function f(a, b, c) { a + b + c } with names [x, y]: f(x, y, c) { x + y + c }
C3Witness ==
    /\ mode = "renameParameters" /\ run = 1
    /\ input.bindings = <<N("a"), N("b"), N("c")>> /\ input.params = 3
    /\ Len(input.occs) = 3
    /\ call.names = <<N("x"), N("y")>>
    /\ ast.bindings = <<N("x"), N("y"), N("c")>>
    /\ \A o \in 1..3 : ast.occs[o] = [name |-> ast.bindings[o], b |-> o, kind |-> "reference"]

(***************************************************************************)
(* C4.  Scope safety: after renameFast every identifier occurrence         *)
(* resolves to the binding it resolved to before the call (a free          *)
(* variable stays free).                                                   *)
(***************************************************************************)
C4ScopeSafe ==
    (mode = "renameFast" /\ run = 1) =>
        \A o \in 1..Len(ast.occs) :
            getBinding(ast, ast.occs[o].name) = input.occs[o].b

(***************************************************************************)
(* The transform runner, as unminify uses it.  applyTransforms runs the    *)
(* transforms of the list in order, and runs the whole list again when a   *)
(* pass made changes, up to IterationCap passes.  A transform is a black   *)
(* box: each run reports any number of changes up to MaxChanges.           *)
(*   run      the number of the pass                                       *)
(*   cur      [i: the index of the transform to run next,                  *)
(*             pass: the changes reported in this pass so far]             *)
(*   changes  the changes counted by applyTransforms                       *)
(*   call     the state object of the caller of unminify.run               *)
(***************************************************************************)
\* the iteration cap chosen by the implementation
IterationCap == 3

\* Object.values(transforms).length
NumTransforms == 3

\* most changes one run of a transform reports
MaxChanges == 2

\* a slip: one change in a pass is not enough to run the list again
repeatsOffByOne(passChanges) == passChanges > 1

\* after the pass, if any changes > 0, repeat the whole list
repeats(passChanges) == passChanges > 0

UnminifyInit ==
    /\ mode = "unminify"
    /\ input \in {[changes |-> c] : c \in 0..1}
    /\ call = input
    /\ ast = <<>>
    /\ cur = [i |-> 1, pass |-> 0]
    /\ changes = 0
    /\ run = 1
    /\ revisit = FALSE
    /\ pc = "applyTransforms"
    /\ log = <<>>
    /\ scope = <<>>
    /\ globalState = EmptyState

\* the next transform of the list runs
RunTransform ==
    /\ mode = "unminify" /\ pc = "applyTransforms"
    /\ cur.i <= NumTransforms
    /\ \E c \in 0..MaxChanges :
          /\ changes' = changes + c
          /\ cur' = [i |-> cur.i + 1, pass |-> cur.pass + c]
    /\ log' = Append(log, cur.i)
    /\ UNCHANGED <<mode, input, ast, run, revisit, call, pc, scope, globalState>>

\* the pass made changes: the whole list again
Repeat ==
    /\ mode = "unminify" /\ pc = "applyTransforms"
    /\ cur.i > NumTransforms
    /\ repeats(cur.pass)
    /\ run < IterationCap
    /\ run' = run + 1
    /\ cur' = [i |-> 1, pass |-> 0]
    /\ UNCHANGED <<mode, input, ast, changes, revisit, call, pc, log, scope, globalState>>

\* the pass made changes and the cap is reached: fatal, "did not converge"
DidNotConverge ==
    /\ mode = "unminify" /\ pc = "applyTransforms"
    /\ cur.i > NumTransforms
    /\ repeats(cur.pass)
    /\ run >= IterationCap
    /\ pc' = "did not converge"
    /\ UNCHANGED <<mode, input, ast, cur, changes, run, revisit, call, log, scope, globalState>>

\* a pass without changes: applyTransforms returns {changes}, and unminify
\* adds it to state.changes
Return ==
    /\ mode = "unminify" /\ pc = "applyTransforms"
    /\ cur.i > NumTransforms
    /\ ~repeats(cur.pass)
    /\ call' = [call EXCEPT !.changes = @ + changes]
    /\ pc' = "returned"
    /\ UNCHANGED <<mode, input, ast, cur, changes, run, revisit, log, scope, globalState>>

UnminifyNext == RunTransform \/ Repeat \/ DidNotConverge \/ Return

\* the runner is synchronous: it goes on until it returns or throws
SpecUnminify == UnminifyInit /\ [][UnminifyNext]_vars /\ WF_vars(UnminifyNext)

(***************************************************************************)
(* C5.  applyTransforms runs the transforms in the listed order; at the    *)
(* end of a pass it runs the whole list again if and only if the pass      *)
(* reported changes (and then ends with "did not converge" when the cap    *)
(* is reached); it returns only after a pass in which every transform      *)
(* reported zero changes, and unminify then adds the total to its          *)
(* caller's state.changes; and it always ends, returning or failing.       *)
(***************************************************************************)
C5Done == pc \in {"returned", "did not converge"}

C5Always ==
    /\ \A k \in 1..Len(log) : log[k] = ((k - 1) % NumTransforms) + 1
    /\ run <= IterationCap
    /\ pc = "returned" =>
          /\ cur.pass = 0
          /\ Len(log) = run * NumTransforms
          /\ call.changes = input.changes + changes
    /\ pc = "did not converge" =>
          /\ cur.pass > 0
          /\ run = IterationCap
          /\ Len(log) = run * NumTransforms
          /\ call = input

\* what follows the end of a pass
C5EndOfPass ==
    (pc = "applyTransforms" /\ cur.i > NumTransforms) =>
        IF cur.pass > 0
        THEN \/ pc' = "applyTransforms" /\ run' = run + 1 /\ cur'.i = 1 /\ cur'.pass = 0
             \/ pc' = "did not converge" /\ run = IterationCap
        ELSE pc' = "returned"

C5FixpointDriver == []C5Always /\ [][C5EndOfPass]_vars /\ <>C5Done

\* two passes: the first reported changes, the second none
C5Witness ==
    /\ mode = "unminify" /\ pc = "returned"
    /\ run = 2 /\ changes > 0
    /\ log = <<1, 2, 3, 1, 2, 3>>
    /\ call.changes = input.changes + changes

(***************************************************************************)
(* Deob.replaceConstant (utils/ast.ts).  The program is a list of nodes in *)
(* source order, all in one scope; each node has a type, the name id it    *)
(* declares or assigns (0: the target is not a plain identifier, so that   *)
(* left.name is undefined) and one expression e: the init of a declarator, *)
(* the right side of an assignment, the argument of a call statement.      *)
(* A path that was removed keeps its place in the list with type           *)
(* "removed", so that the paths recorded in the bindings stay valid.       *)
(***************************************************************************)
\* longest program given to replaceConstant
MaxBody == 3

\* the variable names of a program
Names == {1, 2}

\* the value of a string literal is its sequence of characters
StringLiteral(v) == [t |-> "StringLiteral", v |-> v, es |-> <<>>]

NumericLiteral(v) == [t |-> "NumericLiteral", v |-> v, es |-> <<>>]

BooleanLiteral(v) == [t |-> "BooleanLiteral", v |-> v, es |-> <<>>]

isStringLiteral(e) == e.t = "StringLiteral"

isNumericLiteral(e) == e.t = "NumericLiteral"

isIdentifier(e) == e.t = "Identifier"

VariableDeclarator(id, init) == [type |-> "VariableDeclarator", id |-> id, e |-> init]

AssignmentExpression(left, right) == [type |-> "AssignmentExpression", id |-> left, e |-> right]

\* the statement  f(argument);
CallStatement(argument) == [type |-> "ExpressionStatement", id |-> 0, e |-> argument]

NoBinding == [constant |-> FALSE, constantViolations |-> {}, referencePaths |-> {}, kind |-> "none"]

\* the paths of the declarators of a name
Declarators(body, name) ==
    {p \in 1..Len(body) : body[p].type = "VariableDeclarator" /\ body[p].id = name}

\* the bindings of the scope as the traversal collects them before the
\* first visit: assignments and redeclarations are constant violations,
\* identifiers that are read are references
crawl(body) ==
    [name \in Names |->
        LET decls == Declarators(body, name)
            first == CHOOSE d \in decls : \A o \in decls : d <= o
            violations ==
                {p \in 1..Len(body) : body[p].type = "AssignmentExpression" /\ body[p].id = name}
                    \cup (decls \ {first})
        IN  IF decls = {} THEN NoBinding
            ELSE [constant |-> violations = {},
                  constantViolations |-> violations,
                  referencePaths |-> {p \in 1..Len(body) : body[p].e = Id(name)},
                  kind |-> "var"]]

\* scope.getBinding(name); undefined for a name the scope does not bind
scopeGetBinding(sc, name) == IF name \in DOMAIN sc THEN sc[name] ELSE NoBinding

\* path.remove() of the node at p, which also drops its binding
remove(r, p) ==
    [body |-> [r.body EXCEPT ![p].type = "removed"],
     scope |-> IF r.body[p].type = "VariableDeclarator" /\ r.body[p].id \in DOMAIN r.scope
               THEN [r.scope EXCEPT ![r.body[p].id] = NoBinding]
               ELSE r.scope]

\* r.replaceWith(value) for every r of the reference paths
replaceReferences(body, paths, value) ==
    [p \in 1..Len(body) |-> IF p \in paths THEN [body[p] EXCEPT !.e = value] ELSE body[p]]

\* replaceConstantVariable without the test of the binding being constant
replaceConstantVariableAlways(body, sc, p, value) ==
    LET binding == scopeGetBinding(sc, body[p].id)
    IN  IF binding # NoBinding
        THEN remove([body |-> replaceReferences(body, binding.referencePaths, value),
                     scope |-> sc], p)
        ELSE [body |-> body, scope |-> sc]

replaceConstantVariable(body, sc, p, value) ==
    LET binding == scopeGetBinding(sc, body[p].id)
    IN  IF /\ binding # NoBinding
           /\ binding.constant
           /\ Cardinality(binding.constantViolations) = 0
        THEN remove([body |-> replaceReferences(body, binding.referencePaths, value),
                     scope |-> sc], p)
        ELSE [body |-> body, scope |-> sc]

\* the literal a declarator of the inputs gives to a name
LiteralOf(name) ==
    IF name % 2 = 1 THEN StringLiteral(<<"s", "s">>) ELSE NumericLiteral(name)

ConstantNodes ==
    UNION {{VariableDeclarator(n, LiteralOf(n)), VariableDeclarator(n, BooleanLiteral(TRUE))} :
              n \in Names}
        \cup {d \in {VariableDeclarator(n, Id(m)) : n \in Names, m \in Names} : d.e.v # d.id}
        \cup {AssignmentExpression(n, e) : n \in Names, e \in {NumericLiteral(0)} \cup {Id(m) : m \in Names}}
        \cup {AssignmentExpression(0, StringLiteral(<<"s">>))}
        \cup {CallStatement(Id(n)) : n \in Names}

ConstantPrograms == UNION {[1..n -> ConstantNodes] : n \in 1..MaxBody}

ReplaceConstantInit ==
    /\ mode = "replaceConstant"
    /\ input \in ConstantPrograms
    /\ ast = input
    /\ scope = crawl(input)
    /\ cur = 1
    /\ changes = 0
    /\ run = 1
    /\ revisit = FALSE
    /\ call = <<>>
    /\ pc = "traverse" /\ log = <<>>
    /\ globalState = EmptyState

\* the traversal stands on a node of the given type
ConstantAt(type) ==
    /\ mode = "replaceConstant" /\ pc = "traverse"
    /\ cur <= Len(ast)
    /\ ast[cur].type = type

\* what both visitors do: the node goes to replaceConstantVariable when
\* its value is a string or a numeric literal
ConstantVisit(value) ==
    /\ LET r == IF isStringLiteral(value) \/ isNumericLiteral(value)
                THEN replaceConstantVariable(ast, scope, cur, value)
                ELSE [body |-> ast, scope |-> scope]
       IN  /\ ast' = r.body
           /\ scope' = r.scope
    /\ cur' = cur + 1
    /\ UNCHANGED <<mode, input, changes, run, revisit, call, pc, log, globalState>>

\* value is the right side of the assignment
ConstantAssignmentExpression ==
    /\ ConstantAt("AssignmentExpression")
    /\ ConstantVisit(ast[cur].e)

\* value is the init of the declarator
ConstantVariableDeclarator ==
    /\ ConstantAt("VariableDeclarator")
    /\ ConstantVisit(ast[cur].e)

\* a node neither visitor is registered for
ConstantOtherNode ==
    /\ ConstantAt("ExpressionStatement")
    /\ cur' = cur + 1
    /\ UNCHANGED <<mode, input, ast, changes, run, revisit, call, pc, log, scope, globalState>>

\* the traversal is over: the code is generated and parsed again
ConstantTraversed ==
    /\ mode = "replaceConstant" /\ pc = "traverse"
    /\ cur > Len(ast)
    /\ pc' = "reParse"
    /\ UNCHANGED <<mode, input, ast, cur, changes, run, revisit, call, log, scope, globalState>>

\* generator prints the nodes that are left, parser reads them again
parsed(body) == SelectSeq(body, LAMBDA s : s.type # "removed")

ConstantReParse ==
    /\ mode = "replaceConstant" /\ pc = "reParse"
    /\ ast' = parsed(ast)
    /\ scope' = crawl(ast')
    /\ pc' = "done"
    /\ UNCHANGED <<mode, input, cur, changes, run, revisit, call, log, globalState>>

ReplaceConstantNext ==
    \/ ConstantAssignmentExpression
    \/ ConstantVariableDeclarator
    \/ ConstantOtherNode
    \/ ConstantTraversed
    \/ ConstantReParse

SpecReplaceConstant == ReplaceConstantInit /\ [][ReplaceConstantNext]_vars

(***************************************************************************)
(* C7.  replaceConstant: for every binding of the input that is constant,  *)
(* has no constant violation and is initialised with a string or numeric   *)
(* literal, when the traversal is over every reference to it holds that    *)
(* literal, no read of the name is left and its declarator is removed;     *)
(* for every binding that is reassigned (at least one constant violation)  *)
(* every reference still is the identifier and every declarator of the     *)
(* name is still in the program.                                           *)
(***************************************************************************)
\* the binding of the input is one replaceConstant inlines
C7Inlinable(name) ==
    LET b == crawl(input)[name]
    IN  /\ b # NoBinding
        /\ b.constant /\ Cardinality(b.constantViolations) = 0
        /\ \A d \in Declarators(input, name) :
              isStringLiteral(input[d].e) \/ isNumericLiteral(input[d].e)

C7Reassigned(name) ==
    LET b == crawl(input)[name]
    IN  b # NoBinding /\ Cardinality(b.constantViolations) > 0

C7ReplaceConstant ==
    /\ (mode = "replaceConstant" /\ pc = "reParse") =>
          \A name \in Names :
              LET b == crawl(input)[name]
              IN  /\ C7Inlinable(name) =>
                     \A d \in Declarators(input, name) :
                        /\ ast[d].type = "removed"
                        /\ \A p \in b.referencePaths : ast[p].e = input[d].e
                        /\ \A p \in 1..Len(ast) :
                              ast[p].type # "removed" => ast[p].e # Id(name)
                  /\ C7Reassigned(name) =>
                        /\ \A p \in b.referencePaths :
                              ast[p].e = Id(name) /\ ast[p].type = input[p].type
                        /\ \A d \in Declarators(input, name) :
                              ast[d].type = "VariableDeclarator" /\ ast[d].id = name
    /\ (mode = "replaceConstant" /\ pc = "done") =>
          \A name \in Names :
              /\ C7Inlinable(name) =>
                    \A p \in 1..Len(ast) : ast[p].e # Id(name) /\ ast[p].id # name
              /\ C7Reassigned(name) =>
                    /\ Cardinality(Declarators(ast, name))
                          = Cardinality(Declarators(input, name))
                    /\ Cardinality(crawl(ast)[name].referencePaths)
                          = Cardinality(crawl(input)[name].referencePaths)

\* let a = "s"; let b = a; b = b;  has become  let b = "s"; b = b;
C7Witness ==
    /\ mode = "replaceConstant" /\ pc = "done"
    /\ \E n \in Names :
          /\ C7Inlinable(n)
          /\ crawl(input)[n].referencePaths # {}
    /\ \E m \in Names :
          /\ C7Reassigned(m)
          /\ crawl(input)[m].referencePaths # {}
          /\ crawl(ast)[m].referencePaths # {}

(***************************************************************************)
(* Deob.calcBinary, first traversal (utils/ast.ts).  The program is one    *)
(* expression; a path is the list of operand numbers (1: left, 2: right)   *)
(* that leads from the root to a node.  A string is the sequence of its    *)
(* characters; a JavaScript value is a record with its kind k ("number",   *)
(* "string", "boolean", "NaN"), the number n (1 and 0 for true and false)  *)
(* and the string s.                                                       *)
(***************************************************************************)
\* most binary operators in an input of calcBinary
MaxOperators == 2

binaryExpression(operator, left, right) ==
    [t |-> "BinaryExpression", v |-> operator, es |-> <<left, right>>]

\* a regular expression literal  /r/
RegExpLiteral == [t |-> "RegExpLiteral", v |-> <<"r">>, es |-> <<>>]

isBinaryExpression(e) == e.t = "BinaryExpression"

\* t.isLiteral: the node types with the alias Literal
isLiteral(e) ==
    e.t \in {"StringLiteral", "NumericLiteral", "BooleanLiteral", "NullLiteral",
             "RegExpLiteral", "TemplateLiteral", "BigIntLiteral"}

Number(n) == [k |-> "number", n |-> n, s |-> <<>>]

String(s) == [k |-> "string", n |-> 0, s |-> s]

NaN == [k |-> "NaN", n |-> 0, s |-> <<>>]

Boolean(b) == [k |-> "boolean", n |-> IF b THEN 1 ELSE 0, s |-> <<>>]

DecimalDigits == <<"0", "1", "2", "3", "4", "5", "6", "7", "8", "9">>

\* the decimal digits of a number that is not negative
RECURSIVE Digits(_)
Digits(n) ==
    IF n < 10 THEN <<DecimalDigits[n + 1]>>
    ELSE Digits(n \div 10) \o <<DecimalDigits[(n % 10) + 1]>>

\* the number a sequence of decimal digits stands for
RECURSIVE DigitsValue(_)
DigitsValue(s) ==
    IF s = <<>> THEN 0
    ELSE 10 * DigitsValue(SubSeq(s, 1, Len(s) - 1))
            + (CHOOSE d \in 0..9 : DecimalDigits[d + 1] = s[Len(s)])

\* the conversion of a value to a string
toString(value) ==
    CASE value.k = "string" -> value.s
      [] value.k = "NaN" -> <<"N", "a", "N">>
      [] value.k = "boolean" ->
            IF value.n = 1 THEN <<"t", "r", "u", "e">> ELSE <<"f", "a", "l", "s", "e">>
      [] value.k = "number" ->
            IF value.n < 0 THEN <<"-">> \o Digits(-value.n) ELSE Digits(value.n)

\* the conversion of a value to a number
toNumber(value) ==
    CASE value.k = "number" -> value
      [] value.k = "NaN" -> NaN
      [] value.k = "boolean" -> Number(value.n)
      [] value.k = "string" ->
            IF value.s = <<>> THEN Number(0)
            ELSE IF \A i \in 1..Len(value.s) :
                        \E d \in 1..10 : DecimalDigits[d] = value.s[i]
                 THEN Number(DigitsValue(value.s))
                 ELSE NaN

\* the operator applied to two values, as JavaScript does it
applyOperator(operator, l, r) ==
    LET a == toNumber(l)
        b == toNumber(r)
    IN  CASE operator = "+" /\ (l.k = "string" \/ r.k = "string") ->
                String(toString(l) \o toString(r))
          [] a.k = "NaN" \/ b.k = "NaN" -> NaN
          [] operator = "+" -> Number(a.n + b.n)
          [] operator = "-" -> Number(a.n - b.n)
          [] operator = "*" -> Number(a.n * b.n)

\* path.evaluate(): the value of an expression when it is known for sure
RECURSIVE evaluate(_)
evaluate(e) ==
    CASE e.t = "NumericLiteral" -> [confident |-> TRUE, value |-> Number(e.v)]
      [] e.t = "StringLiteral" -> [confident |-> TRUE, value |-> String(e.v)]
      [] e.t = "BooleanLiteral" -> [confident |-> TRUE, value |-> Boolean(e.v)]
      [] e.t = "BinaryExpression" /\ e.v \in {"+", "-", "*"} ->
            LET l == evaluate(e.es[1])
                r == evaluate(e.es[2])
            IN  IF l.confident /\ r.confident
                THEN [confident |-> TRUE, value |-> applyOperator(e.v, l.value, r.value)]
                ELSE [confident |-> FALSE, value |-> NaN]
      [] OTHER -> [confident |-> FALSE, value |-> NaN]

\* t.valueToNode: the node that stands for a value
valueToNode(value) ==
    CASE value.k = "string" -> StringLiteral(value.s)
      [] value.k = "boolean" -> BooleanLiteral(value.n = 1)
      [] value.k = "NaN" -> binaryExpression("/", NumericLiteral(0), NumericLiteral(0))
      [] value.k = "number" ->
            IF value.n < 0
            THEN unaryExpression("-", NumericLiteral(-value.n))
            ELSE NumericLiteral(value.n)

\* the paths of the nodes of an expression
RECURSIVE PathsOf(_)
PathsOf(e) ==
    {<<>>} \cup UNION {{<<i>> \o p : p \in PathsOf(e.es[i])} : i \in 1..Len(e.es)}

RECURSIVE nodeAt(_, _)
nodeAt(e, path) == IF path = <<>> THEN e ELSE nodeAt(e.es[Head(path)], Tail(path))

\* path.replaceWith(node) for the path of root
RECURSIVE replaceWith(_, _, _)
replaceWith(root, path, node) ==
    IF path = <<>> THEN node
    ELSE [root EXCEPT !.es[Head(path)] = replaceWith(root.es[Head(path)], Tail(path), node)]

parentPath(path) == SubSeq(path, 1, Len(path) - 1)

\* transformConcatenated that does not go on with the parent
transformConcatenatedOnce(root, path) ==
    LET node == nodeAt(root, path)
        left == node.es[1]
        right == node.es[2]
        hasIdentifier == isIdentifier(left) \/ isIdentifier(right)
        e == evaluate(node)
    IN  IF hasIdentifier THEN [ast |-> root, skip |-> {}]
        ELSE IF isLiteral(left) /\ isLiteral(right)
        THEN [ast |-> IF e.confident THEN replaceWith(root, path, valueToNode(e.value)) ELSE root,
              skip |-> {path}]
        ELSE [ast |-> root, skip |-> {}]

\* the new program and the paths that were told to skip
RECURSIVE transformConcatenated(_, _)
transformConcatenated(root, path) ==
    LET node == nodeAt(root, path)
        left == node.es[1]
        right == node.es[2]
        hasIdentifier == isIdentifier(left) \/ isIdentifier(right)
        e == evaluate(node)
        replaced == IF e.confident THEN replaceWith(root, path, valueToNode(e.value)) ELSE root
        parent == IF path # <<>> /\ isBinaryExpression(nodeAt(replaced, parentPath(path)))
                  THEN transformConcatenated(replaced, parentPath(path))
                  ELSE [ast |-> replaced, skip |-> {}]
    IN  IF hasIdentifier THEN [ast |-> root, skip |-> {}]
        ELSE IF isLiteral(left) /\ isLiteral(right)
        THEN [ast |-> parent.ast, skip |-> parent.skip \cup {path}]
        ELSE [ast |-> root, skip |-> {}]

\* the operands of the inputs
BinaryLeaves ==
    {NumericLiteral(1), StringLiteral(<<"1">>), StringLiteral(<<"a">>), Id(1), RegExpLiteral}

BinaryOperators == {"+", "-"}

\* the expressions with n binary operators, for every n up to the bound
BinaryTrees[n \in 0..MaxOperators] ==
    IF n = 0 THEN BinaryLeaves
    ELSE UNION {{binaryExpression(o, l, r) :
                    o \in BinaryOperators, l \in BinaryTrees[k], r \in BinaryTrees[n - 1 - k]} :
                k \in 0..(n - 1)}

CalcBinaryInit ==
    /\ mode = "calcBinary"
    /\ input \in UNION {BinaryTrees[n] : n \in 1..MaxOperators}
    /\ ast = input
    /\ cur = <<<<>>>>
    /\ changes = 0
    /\ run = 1
    /\ revisit = FALSE
    /\ call = <<>>
    /\ pc = "traverse" /\ log = <<>> /\ scope = <<>>
    /\ globalState = EmptyState

\* the traversal stands on a binary expression: the visitor runs, and the
\* operands are visited next unless the path was told to skip
BinaryExpressionEnter ==
    /\ mode = "calcBinary" /\ pc = "traverse"
    /\ cur # <<>>
    /\ Head(cur) \in PathsOf(ast)
    /\ isBinaryExpression(nodeAt(ast, Head(cur)))
    /\ LET r == transformConcatenated(ast, Head(cur))
       IN  /\ ast' = r.ast
           /\ cur' = IF Head(cur) \in r.skip
                     THEN Tail(cur)
                     ELSE <<Head(cur) \o <<1>>, Head(cur) \o <<2>>>> \o Tail(cur)
    /\ UNCHANGED <<mode, input, changes, run, revisit, call, pc, log, scope, globalState>>

\* a node the visitor is not registered for, or an operand of a node that
\* has been replaced since: nothing happens
BinaryOtherNode ==
    /\ mode = "calcBinary" /\ pc = "traverse"
    /\ cur # <<>>
    /\ Head(cur) \in PathsOf(ast) => ~isBinaryExpression(nodeAt(ast, Head(cur)))
    /\ cur' = Tail(cur)
    /\ UNCHANGED <<mode, input, ast, changes, run, revisit, call, pc, log, scope, globalState>>

\* the first traversal is over
BinaryTraversed ==
    /\ mode = "calcBinary" /\ pc = "traverse"
    /\ cur = <<>>
    /\ pc' = "reParse"
    /\ UNCHANGED <<mode, input, ast, cur, changes, run, revisit, call, log, scope, globalState>>

CalcBinaryNext ==
    \/ BinaryExpressionEnter
    \/ BinaryOtherNode
    \/ BinaryTraversed

SpecCalcBinary == CalcBinaryInit /\ [][CalcBinaryNext]_vars

(***************************************************************************)
(* C8.  calcBinary: a binary expression is replaced only when both of its  *)
(* operands are literals, possibly after its own sub-expressions were      *)
(* folded, and then by the node of the value of the operator applied to    *)
(* them; a binary expression that has an identifier as an operand at any   *)
(* nesting level is never replaced; and at the end of the traversal every  *)
(* binary expression of literals with a known value is folded, so that     *)
(* 1 + 1 + x has become 2 + x and x + 1 + 1 is unchanged.                  *)
(***************************************************************************)
\* the literals that have a value, and the value
C8HasValue(e) == isNumericLiteral(e) \/ isStringLiteral(e)

C8Value(e) == IF isNumericLiteral(e) THEN Number(e.v) ELSE String(e.v)

\* the expression with every sub-expression folded that can be, bottom up
RECURSIVE C8Folded(_)
C8Folded(e) ==
    IF ~isBinaryExpression(e) THEN e
    ELSE LET l == C8Folded(e.es[1])
             r == C8Folded(e.es[2])
         IN  IF C8HasValue(l) /\ C8HasValue(r)
             THEN valueToNode(applyOperator(e.v, C8Value(l), C8Value(r)))
             ELSE binaryExpression(e.v, l, r)

\* out is what only allowed replacements make of the expression in
RECURSIVE C8Allowed(_, _)
C8Allowed(in, out) ==
    IF ~isBinaryExpression(in) THEN out = in
    ELSE \/ /\ isBinaryExpression(out) /\ out.v = in.v
            /\ C8Allowed(in.es[1], out.es[1])
            /\ C8Allowed(in.es[2], out.es[2])
         \/ /\ isLiteral(C8Folded(in.es[1])) /\ isLiteral(C8Folded(in.es[2]))
            /\ out = C8Folded(in)

RECURSIVE C8ContainsIdentifier(_)
C8ContainsIdentifier(e) ==
    isIdentifier(e) \/ \E i \in 1..Len(e.es) : C8ContainsIdentifier(e.es[i])

C8IdentifiersKept ==
    \A q \in PathsOf(input) :
        (isBinaryExpression(nodeAt(input, q)) /\ C8ContainsIdentifier(nodeAt(input, q))) =>
            /\ q \in PathsOf(ast)
            /\ isBinaryExpression(nodeAt(ast, q))
            /\ nodeAt(ast, q).v = nodeAt(input, q).v
            /\ C8ContainsIdentifier(nodeAt(ast, q))

\* the documented examples, with the literals of the inputs
C8Examples ==
    LET x == Id(1)
        one == NumericLiteral(1)
    IN  /\ input = binaryExpression("+", one, one) => ast = NumericLiteral(2)
        /\ input = binaryExpression("+", StringLiteral(<<"1">>), StringLiteral(<<"a">>))
              => ast = StringLiteral(<<"1", "a">>)
        /\ input = binaryExpression("+", binaryExpression("+", one, one), x)
              => ast = binaryExpression("+", NumericLiteral(2), x)
        /\ input = binaryExpression("+", binaryExpression("+", x, one), one)
              => ast = input

C8CalcBinary ==
    mode = "calcBinary" =>
        /\ C8Allowed(input, ast)
        /\ C8IdentifiersKept
        /\ pc = "reParse" => (ast = C8Folded(input) /\ C8Examples)

\* 1 + 1 + x  has become  2 + x
C8Witness ==
    /\ mode = "calcBinary" /\ pc = "reParse"
    /\ input = binaryExpression("+", binaryExpression("+", NumericLiteral(1), NumericLiteral(1)), Id(1))
    /\ ast = binaryExpression("+", NumericLiteral(2), Id(1))

(***************************************************************************)
(* Deob.removeUnusedBlock (utils/ast.ts).  A statement is a record with    *)
(* its type, the name id it declares (0: none), its expression e (the      *)
(* test of an if, the init of a declaration, the expression of an          *)
(* expression statement), the statements of its body (a program, a block), *)
(* and its consequent and alternate, each a list of no or one statement.   *)
(* hoisted tells that the statement was moved out of the block it was      *)
(* written in, so that the scope it now lies in has no binding for it.     *)
(* A step of a path is a record with the key of the child and its index;   *)
(* the names are numbers: 10 * i + b is the i-th unique name made from b.  *)
(***************************************************************************)
\* most statements in a block of an input of removeUnusedBlock
MaxBlock == 2

conditionalExpression(test, consequent, alternate) ==
    [t |-> "ConditionalExpression", v |-> "?", es |-> <<test, consequent, alternate>>]

node(type, id, e, body, consequent, alternate) ==
    [type |-> type, id |-> id, e |-> e, body |-> body,
     consequent |-> consequent, alternate |-> alternate, hoisted |-> FALSE]

ifStatement(test, consequent, alternate) ==
    node("IfStatement", 0, test, <<>>, <<consequent>>, alternate)

block(body) == node("BlockStatement", 0, Null, body, <<>>, <<>>)

program(body) == node("Program", 0, Null, body, <<>>, <<>>)

\* the statement  f(e);
statementOf(e) == node("ExpressionStatement", 0, e, <<>>, <<>>, <<>>)

\* the statement  let id = init;
letDeclaration(id, init) == node("VariableDeclaration", id, init, <<>>, <<>>, <<>>)

isStatement(n) == "type" \in DOMAIN n

isBlockStatement(n) == isStatement(n) /\ n.type = "BlockStatement"

isIfStatement(n) == isStatement(n) /\ n.type = "IfStatement"

isConditionalExpression(n) == ~isStatement(n) /\ n.t = "ConditionalExpression"

\* the truth of a value
truthy(value) ==
    CASE value.k = "boolean" -> value.n = 1
      [] value.k = "number" -> value.n # 0
      [] value.k = "string" -> value.s # <<>>
      [] value.k = "NaN" -> FALSE

\* path.evaluateTruthy(): "undefined" when the value is not known for sure
evaluateTruthy(e) ==
    LET r == evaluate(e)
    IN  IF r.confident THEN (IF truthy(r.value) THEN "true" ELSE "false") ELSE "undefined"

\* the steps to the children of a node, in the order they are traversed
steps(n) ==
    IF isStatement(n)
    THEN <<[key |-> "e", i |-> 0]>>
            \o [i \in 1..Len(n.body) |-> [key |-> "body", i |-> i]]
            \o [i \in 1..Len(n.consequent) |-> [key |-> "consequent", i |-> i]]
            \o [i \in 1..Len(n.alternate) |-> [key |-> "alternate", i |-> i]]
    ELSE [i \in 1..Len(n.es) |-> [key |-> "es", i |-> i]]

child(n, step) == IF step.key = "e" THEN n.e ELSE n[step.key][step.i]

RECURSIVE get(_, _)
get(root, path) == IF path = <<>> THEN root ELSE get(child(root, Head(path)), Tail(path))

\* the next node whose exit visitor runs: the first if statement or
\* conditional expression in the order in which the traversal leaves
\* nodes, looked for in the children from the k-th on and then in n itself
RECURSIVE firstExitFrom(_, _)
firstExitFrom(n, k) ==
    IF k > Len(steps(n))
    THEN [found |-> isIfStatement(n) \/ isConditionalExpression(n), path |-> <<>>]
    ELSE LET below == firstExitFrom(child(n, steps(n)[k]), 1)
         IN  IF below.found
             THEN [found |-> TRUE, path |-> <<steps(n)[k]>> \o below.path]
             ELSE firstExitFrom(n, k + 1)

firstExit(n) == firstExitFrom(n, 1)

\* the names the scope of the path has a binding for: the declarations
\* written in the programs and blocks around it
RECURSIVE hasBinding(_, _)
hasBinding(root, path) ==
    IF path = <<>> THEN {}
    ELSE (IF isStatement(root)
          THEN {root.body[i].id : i \in {j \in 1..Len(root.body) :
                    root.body[j].type = "VariableDeclaration" /\ ~root.body[j].hoisted}}
          ELSE {})
            \cup hasBinding(child(root, Head(path)), Tail(path))

\* the names of the inputs, which program.references holds from the start
BlockNames == {1, 2, 3}

\* scope.generateUid(name): the first unique name of the base of name that
\* is not known to the program
scopeGenerateUid(uids, name) ==
    LET base == name % 10
        free == {i \in 1..(Cardinality(uids) + 1) : 10 * i + base \notin uids \cup BlockNames}
    IN  10 * Min(free) + base

\* rename(localScope): every binding of the block whose name the outer
\* scope has too gets a unique name for the identifier of its declaration
RECURSIVE rename(_, _, _, _)
rename(body, outer, uids, k) ==
    IF k > Len(body) THEN [body |-> body, uids |-> uids]
    ELSE IF /\ body[k].type = "VariableDeclaration" /\ ~body[k].hoisted
            /\ body[k].id \in outer
         THEN LET newName == scopeGenerateUid(uids, body[k].id)
              IN  rename([body EXCEPT ![k].id = newName], outer, uids \cup {newName}, k + 1)
         ELSE rename(body, outer, uids, k + 1)

\* replace(path, node) that puts a block in as one statement
replaceWhole(n) == [kind |-> "single", nodes |-> <<n>>]

\* replace(path, node): replaceWithMultiple of the body of a block,
\* replaceWith of any other node
replace(n) ==
    IF isBlockStatement(n)
    THEN [kind |-> "multiple", nodes |-> n.body]
    ELSE [kind |-> "single", nodes |-> <<n>>]

consequentOf(n) == IF isStatement(n) THEN n.consequent[1] ELSE n.es[2]

\* the list of no or one alternate
alternateOf(n) == IF isStatement(n) THEN n.alternate ELSE <<n.es[3]>>

testOf(n) == IF isStatement(n) THEN n.e ELSE n.es[1]

\* rename of the scope of a branch, which is the scope of the path itself
\* unless the branch is a block
renamed(branch, outer, uids) ==
    IF isBlockStatement(branch)
    THEN LET r == rename(branch.body, outer, uids, 1)
         IN  [node |-> [branch EXCEPT !.body = r.body], uids |-> r.uids]
    ELSE [node |-> branch, uids |-> uids]

\* process(path): what the path is replaced with, and the unique names made
process(n, outer, uids) ==
    LET taken == IF evaluateTruthy(testOf(n)) = "true"
                 THEN <<consequentOf(n)>>
                 ELSE alternateOf(n)
        r == renamed(taken[1], outer, uids)
    IN  IF taken # <<>>
        THEN [kind |-> replace(r.node).kind, nodes |-> replace(r.node).nodes, uids |-> r.uids]
        ELSE [kind |-> "removed", nodes |-> <<>>, uids |-> uids]

withChild(n, step, c) ==
    IF step.key = "e" THEN [n EXCEPT !.e = c] ELSE [n EXCEPT ![step.key][step.i] = c]

\* the program with the node of the path replaced: statements put into a
\* list lie there hoisted; where one statement has to stand, several are
\* put into a new block, and a consequent that is removed leaves an empty
\* block
RECURSIVE put(_, _, _)
put(root, path, r) ==
    LET step == Head(path)
        inserted == IF r.kind = "multiple"
                    THEN [i \in 1..Len(r.nodes) |-> [r.nodes[i] EXCEPT !.hoisted = TRUE]]
                    ELSE r.nodes
        slot == IF r.kind = "multiple" THEN <<block(r.nodes)>> ELSE r.nodes
    IN  IF Len(path) > 1
        THEN withChild(root, step, put(child(root, step), Tail(path), r))
        ELSE CASE step.key = "body" ->
                    [root EXCEPT !.body = SubSeq(root.body, 1, step.i - 1) \o inserted
                                            \o SubSeq(root.body, step.i + 1, Len(root.body))]
               [] step.key = "alternate" -> [root EXCEPT !.alternate = slot]
               [] step.key = "consequent" ->
                    [root EXCEPT !.consequent =
                        IF r.kind = "removed" THEN <<block(<<>>)>> ELSE slot]
               [] step.key = "e" -> [root EXCEPT !.e = r.nodes[1]]
               [] step.key = "es" -> [root EXCEPT !.es[step.i] = r.nodes[1]]

\* the program as the parser reads the generated code: every statement
\* is bound in the scope it lies in
RECURSIVE reparsed(_)
reparsed(n) ==
    [n EXCEPT !.hoisted = FALSE,
              !.body = [i \in 1..Len(n.body) |-> reparsed(n.body[i])],
              !.consequent = [i \in 1..Len(n.consequent) |-> reparsed(n.consequent[i])],
              !.alternate = [i \in 1..Len(n.alternate) |-> reparsed(n.alternate[i])]]

\* an identifier no scope has a binding for
UnknownTest == Id(3)

Tests == {BooleanLiteral(TRUE), BooleanLiteral(FALSE), NumericLiteral(0), UnknownTest}

InnerTests == {BooleanLiteral(TRUE), BooleanLiteral(FALSE), UnknownTest}

Conditionals ==
    LET inner == {Id(1)} \cup {conditionalExpression(t, Id(1), Id(2)) : t \in Tests}
    IN  {conditionalExpression(t, a, b) : t \in Tests, a \in inner, b \in inner}

SimpleStatements ==
    {statementOf(Id(1)), letDeclaration(1, NumericLiteral(1)),
     statementOf(conditionalExpression(UnknownTest, Id(1), Id(2)))}

\* the blocks that do not declare a name twice
Blocks ==
    {block(b) : b \in {c \in UNION {[1..n -> SimpleStatements] : n \in 0..MaxBlock} :
        \A i, j \in 1..Len(c) : (c[i].id # 0 /\ c[i].id = c[j].id) => i = j}}

InnerIfs ==
    {ifStatement(t, c, a) : t \in InnerTests,
        c \in {statementOf(Id(1)), block(<<letDeclaration(1, NumericLiteral(1)), statementOf(Id(1))>>)},
        a \in {<<>>, <<statementOf(Id(2))>>}}

Branches ==
    {statementOf(Id(1)), statementOf(conditionalExpression(UnknownTest, Id(1), Id(2)))}
        \cup Blocks \cup InnerIfs \cup {block(<<i>>) : i \in InnerIfs}

IfStatements ==
    {ifStatement(t, c, a) : t \in Tests, c \in Branches,
        a \in {<<>>} \cup {<<b>> : b \in Branches}}

BlockPrograms ==
    {program(pre \o <<s>> \o <<statementOf(Id(2))>>) :
        pre \in {<<>>, <<letDeclaration(1, NumericLiteral(2))>>},
        s \in IfStatements \cup {statementOf(c) : c \in Conditionals}}

RemoveUnusedBlockInit ==
    /\ mode = "removeUnusedBlock"
    /\ input \in BlockPrograms
    /\ ast = input
    /\ scope = [uids |-> {}]
    /\ cur = <<>>
    /\ changes = 0
    /\ run = 1
    /\ revisit = FALSE
    /\ call = <<>>
    /\ pc = "traverse" /\ log = <<>>
    /\ globalState = EmptyState

\* the exit visitor of the node of the path runs process
UnusedExit(path) ==
    LET r == process(get(ast, path), hasBinding(ast, path), scope.uids)
    IN  /\ ast' = put(ast, path, r)
        /\ scope' = [uids |-> r.uids]
        /\ UNCHANGED <<mode, input, cur, changes, run, revisit, call, pc, log, globalState>>

UnusedIfStatement ==
    /\ mode = "removeUnusedBlock" /\ pc = "traverse"
    /\ LET f == firstExit(ast)
       IN  /\ f.found
           /\ isIfStatement(get(ast, f.path))
           /\ UnusedExit(f.path)

UnusedConditionalExpression ==
    /\ mode = "removeUnusedBlock" /\ pc = "traverse"
    /\ LET f == firstExit(ast)
       IN  /\ f.found
           /\ isConditionalExpression(get(ast, f.path))
           /\ UnusedExit(f.path)

\* the traversal is over
UnusedTraversed ==
    /\ mode = "removeUnusedBlock" /\ pc = "traverse"
    /\ ~firstExit(ast).found
    /\ pc' = "reParse"
    /\ UNCHANGED <<mode, input, ast, cur, changes, run, revisit, call, log, scope, globalState>>

UnusedReParse ==
    /\ mode = "removeUnusedBlock" /\ pc = "reParse"
    /\ ast' = reparsed(ast)
    /\ scope' = [uids |-> {}]
    /\ pc' = "done"
    /\ UNCHANGED <<mode, input, cur, changes, run, revisit, call, log, globalState>>

RemoveUnusedBlockNext ==
    \/ UnusedIfStatement
    \/ UnusedConditionalExpression
    \/ UnusedTraversed
    \/ UnusedReParse

SpecRemoveUnusedBlock == RemoveUnusedBlockInit /\ [][RemoveUnusedBlockNext]_vars

(***************************************************************************)
(* C9.  removeUnusedBlock: when the exit visitor runs on an if statement   *)
(* or a conditional expression whose test has a constant truthy value, the *)
(* node is replaced by its consequent; when the test has a constant falsy  *)
(* value, by its alternate, or it is removed when an if has no else; a     *)
(* block branch is put in as its statements, so that                       *)
(* if (false) {x()} else {y()}  becomes  y();  The declarations of the     *)
(* branch may get a unique name of the same base.                          *)
(***************************************************************************)
\* the node with the unique names taken back to their base
RECURSIVE C9Unnamed(_)
C9Unnamed(n) ==
    [n EXCEPT !.id = n.id % 10,
              !.hoisted = FALSE,
              !.body = [i \in 1..Len(n.body) |-> C9Unnamed(n.body[i])],
              !.consequent = [i \in 1..Len(n.consequent) |-> C9Unnamed(n.consequent[i])],
              !.alternate = [i \in 1..Len(n.alternate) |-> C9Unnamed(n.alternate[i])]]

\* the branch the constant test takes, as what has to stand for the node
C9Taken(n) ==
    LET taken == IF evaluateTruthy(testOf(n)) = "true"
                 THEN <<consequentOf(n)>>
                 ELSE alternateOf(n)
    IN  IF taken = <<>> THEN [kind |-> "removed", nodes |-> <<>>]
        ELSE IF isBlockStatement(taken[1])
        THEN [kind |-> "multiple", nodes |-> taken[1].body]
        ELSE [kind |-> "single", nodes |-> taken]

C9Step ==
    LET f == firstExit(ast)
        n == get(ast, f.path)
    IN  (/\ mode = "removeUnusedBlock" /\ pc = "traverse"
         /\ f.found
         /\ evaluateTruthy(testOf(n)) # "undefined")
            => C9Unnamed(ast') = C9Unnamed(put(ast, f.path, C9Taken(n)))

C9RemoveUnusedBlock == [][C9Step]_vars

\* if (false) { let a = 1; f(a); } else { f(a); } f(b);  has become
\* f(a); f(b);
C9Witness ==
    /\ mode = "removeUnusedBlock" /\ pc = "done"
    /\ input = program(<<ifStatement(BooleanLiteral(FALSE),
                            block(<<letDeclaration(1, NumericLiteral(1)), statementOf(Id(1))>>),
                            <<block(<<statementOf(Id(1))>>)>>),
                         statementOf(Id(2))>>)
    /\ ast = program(<<statementOf(Id(1)), statementOf(Id(2))>>)

(***************************************************************************)
(* C10.  removeUnusedBlock leaves unchanged every if statement and every   *)
(* conditional expression whose test does not evaluate to a constant:      *)
(* when the exit visitor runs on such a node, the program stays as it is.  *)
(***************************************************************************)
C10Step ==
    LET f == firstExit(ast)
        n == get(ast, f.path)
    IN  (/\ mode = "removeUnusedBlock" /\ pc = "traverse"
         /\ f.found
         /\ evaluateTruthy(testOf(n)) = "undefined")
            => ast' = ast

C10FrameCondition == [][C10Step]_vars

(***************************************************************************)
(* Deob.saveAllObject (utils/ast.ts).  The program is a list of nodes in   *)
(* source order; the place of a node in the list is its start.  A node has *)
(* its type, the name id of the variable it declares or of the object it   *)
(* writes to or reads from, the property key it names, its expression e    *)
(* (the init of a declaration, the right side of an assignment), the       *)
(* properties of the object expression it is initialised with, the type    *)
(* of its parent, and the number sc of the scope it lies in (0: the        *)
(* program, others: a function of the program).  A property has a key      *)
(* node, whose v is the name of the key, and a value.  A recorded object   *)
(* is the object expression of the program itself: what is recorded under  *)
(* (start, name) is the node at start.                                     *)
(***************************************************************************)
\* most properties of an object expression of an input
MaxProperties == 2

\* most statements after the object declaration in an input of saveAllObject
MaxAssignments == 2

\* the key of a property or the property of a member expression: a string
\* literal "k" or an identifier k
keyNode(type, name) == [t |-> type, v |-> name]

objectProperty(key, value) == [key |-> key, value |-> value]

\* a value that is an expression of the named type and nothing more
opaque(type) == [t |-> type, v |-> 0, es |-> <<>>]

objectNode(type, id, key, e, props, parent, sc) ==
    [type |-> type, id |-> id, key |-> key, e |-> e, props |-> props,
     parent |-> parent, sc |-> sc]

NoKey == keyNode("none", <<>>)

\* var id = { props };
objectDeclaration(id, props, sc) ==
    objectNode("VariableDeclaration", id, NoKey, opaque("ObjectExpression"), props,
               "Program", sc)

\* var id = init;
variableDeclaration(id, init, sc) ==
    objectNode("VariableDeclaration", id, NoKey, init, <<>>, "Program", sc)

\* id[key] = right  below a parent of the given type
memberAssignment(id, key, right, parent, sc) ==
    objectNode("AssignmentExpression", id, key, right, <<>>, parent, sc)

\* id = right;
assignment(id, right, sc) ==
    objectNode("AssignmentExpression", id, NoKey, right, <<>>, "ExpressionStatement", sc)

\* the start of the declarator that binds the name in the scope: the first
\* declaration of the name in the scope itself, or else in the program;
\* 0 when there is none
bindingStart(body, name, sc) ==
    LET decls(s) == {p \in 1..Len(body) :
                        /\ body[p].type = "VariableDeclaration"
                        /\ body[p].id = name /\ body[p].sc = s}
    IN  IF name = 0 THEN 0
        ELSE IF decls(sc) # {} THEN Min(decls(sc))
        ELSE IF decls(0) # {} THEN Min(decls(0))
        ELSE 0

\* binding.path.node.init?.type === 'ObjectExpression'
isObjectBinding(body, start) == start # 0 /\ body[start].e.t = "ObjectExpression"

\* the constant violations of the binding that starts at start: the
\* assignments to the name and its other declarations
objectViolations(body, start) ==
    {p \in 1..Len(body) :
        /\ p # start
        /\ body[p].type \in {"VariableDeclaration", "AssignmentExpression"}
        /\ body[p].key = NoKey
        /\ bindingStart(body, body[p].id, body[p].sc) = start}

\* the two tests of the binding that both visitors make before they go on:
\* the binding is a declarator initialised with an object expression, and
\* not (!binding.constant && binding.constantViolations.length === 0); a
\* binding is constant when it has no constant violation
passesBindingTests(body, start) ==
    LET constant == objectViolations(body, start) = {}
    IN  /\ isObjectBinding(body, start)
        /\ ~(~constant /\ Cardinality(objectViolations(body, start)) = 0)

\* what path.remove() leaves at the place of a node: nothing; the starts of
\* the other nodes stay what they were, the code is not parsed again
removedNode ==
    objectNode("removed", 0, NoKey, opaque("none"), <<>>, "none", 0)

\* properties.findIndex(p => left.property.value === p.key.name
\*                         || left.property.value === p.key.value): 0 for -1
findIndex(props, key) ==
    LET hits == {i \in 1..Len(props) : props[i].key.v = key.v}
    IN  IF hits = {} THEN 0 ELSE Min(hits)

\* keyIndex !== -1 ? properties[keyIndex] = prop : properties.push(prop)
mergeProperty(props, prop) ==
    IF findIndex(props, prop.key) # 0
    THEN [props EXCEPT ![findIndex(props, prop.key)] = prop]
    ELSE Append(props, prop)

\* t.isFunctionExpression(right) || t.isLiteral(right) || t.isIdentifier(right)
\* || t.isBinaryExpression(right) || t.isObjectExpression(right)
isMergeable(right) ==
    \/ isLiteral(right)
    \/ right.t \in {"FunctionExpression", "Identifier", "BinaryExpression",
                   "ObjectExpression"}

\* the scope rename of the third loop: every node bound to the declarator
\* at decl takes the name, as declared name or object and as a value
renameAlias(body, decl, name) ==
    LET old == body[decl].id
        bound(q) == bindingStart(body, old, body[q].sc) = decl
    IN  [q \in 1..Len(body) |->
            IF ~bound(q) THEN body[q]
            ELSE [body[q] EXCEPT
                    !.id = IF @ = old THEN name ELSE @,
                    !.e  = IF @ = Id(old) THEN Id(name) ELSE @]]

\* the declarators `var u = objectName` that parentPath.traverse meets below
\* the container of scope sc: the program contains every function
aliasesOf(body, sc, objectName) ==
    {p \in 1..Len(body) :
        /\ body[p].type = "VariableDeclaration"
        /\ body[p].e = Id(objectName)
        /\ sc = 0 \/ body[p].sc = sc}

\* one entry of scopes: the aliases are renamed and removed in source order
RECURSIVE renameAliases(_, _, _)
renameAliases(body, sc, objectName) ==
    IF aliasesOf(body, sc, objectName) = {} THEN body
    ELSE LET p == Min(aliasesOf(body, sc, objectName))
         IN  renameAliases([renameAlias(body, p, objectName) EXCEPT ![p] = removedNode],
                           sc, objectName)

\* scopes.forEach(({ parentPath, objectName }) => parentPath?.traverse(...))
RECURSIVE forEachScope(_, _)
forEachScope(body, scopes) ==
    IF scopes = <<>> THEN body
    ELSE forEachScope(renameAliases(body, Head(scopes).sc, Head(scopes).objectName),
                      Tail(scopes))

\* ---- the inputs --------------------------------------------------------
\* the names: 1 the object, 2 its alias, 3 a name bound nowhere
SaveKeys == {"k", "m"}

InitialProperties ==
    {objectProperty(keyNode("Identifier", "k"), NumericLiteral(0)),
     objectProperty(keyNode("StringLiteral", "m"), NumericLiteral(0))}

PropertyLists ==
    UNION {[1..n -> InitialProperties] : n \in 0..MaxProperties}

SaveStatements ==
    {memberAssignment(1, keyNode("StringLiteral", k), right, parent, 0) :
        k \in SaveKeys,
        right \in {NumericLiteral(1), Id(3), opaque("CallExpression")},
        parent \in {"ExpressionStatement", "SequenceExpression", "CallExpression"}}
    \cup {memberAssignment(1, keyNode("StringLiteral", "k"), NumericLiteral(2),
                           "ExpressionStatement", 1),
          memberAssignment(1, keyNode("Identifier", "k"), NumericLiteral(2),
                           "ExpressionStatement", 0),
          memberAssignment(2, keyNode("StringLiteral", "k"), NumericLiteral(2),
                           "ExpressionStatement", 0),
          assignment(1, Id(3), 0),
          variableDeclaration(2, Id(1), 0),
          objectDeclaration(1, <<>>, 1)}

SavePrograms(assignments) ==
    {<<objectDeclaration(1, props, 0)>> \o rest :
        props \in PropertyLists,
        rest \in UNION {[1..n -> SaveStatements] : n \in 1..assignments}}

SaveAllObjectInit ==
    /\ mode = "saveAllObject"
    /\ input \in SavePrograms(MaxAssignments)
    /\ ast = input
    /\ cur = 1
    /\ changes = 0
    /\ run = 0
    /\ revisit = FALSE
    /\ call = <<>>
    /\ pc = "declarations"
    /\ log = <<>>
    /\ scope = [scopes |-> <<>>]
    /\ globalState = EmptyState

SaveAt(phase, types) ==
    /\ mode = "saveAllObject"
    /\ pc = phase
    /\ cur <= Len(ast)
    /\ ast[cur].type \in types

\* scopes.push({ parentPath: path.getStatementParent()?.parentPath, objectName })
\* after the two tests of the binding
scopesPush(scopes, body, p) ==
    IF passesBindingTests(body, bindingStart(body, body[p].id, body[p].sc))
    THEN Append(scopes, [sc |-> body[p].sc, objectName |-> body[p].id])
    ELSE scopes

\* first traversal, VariableDeclaration.exit
SaveVariableDeclaration ==
    /\ SaveAt("declarations", {"VariableDeclaration"})
    /\ IF ast[cur].e.t = "ObjectExpression"
       THEN /\ globalState' =
                 [globalState EXCEPT !.objectVariables =
                     @ \cup {[start |-> cur, name |-> ast[cur].id]}]
            /\ scope' = [scope EXCEPT !.scopes = scopesPush(@, ast, cur)]
       ELSE UNCHANGED <<globalState, scope>>
    /\ cur' = cur + 1
    /\ UNCHANGED <<mode, input, ast, changes, run, revisit, call, pc, log>>

\* second traversal, AssignmentExpression.exit
SaveAssignmentExpression ==
    /\ SaveAt("assignments", {"AssignmentExpression"})
    /\ LET n == ast[cur]
           start == bindingStart(ast, n.id, n.sc)
           merged == /\ n.key.t \in {"StringLiteral", "NumericLiteral"}
                     /\ isMergeable(n.e)
                     /\ passesBindingTests(ast, start)
           isReplace == merged /\ [start |-> start, name |-> n.id]
                                     \in globalState.objectVariables
           props == IF isReplace
                    THEN mergeProperty(ast[start].props, objectProperty(n.key, n.e))
                    ELSE <<>>
           isRemoved == isReplace /\ n.parent \in {"SequenceExpression",
                                                   "ExpressionStatement"}
       IN  /\ ast' = [q \in 1..Len(ast) |->
                        IF isReplace /\ q = start THEN [ast[q] EXCEPT !.props = props]
                        ELSE IF isRemoved /\ q = cur THEN removedNode
                        ELSE ast[q]]
           /\ scope' = IF merged
                       THEN [scope EXCEPT !.scopes = scopesPush(@, ast, cur)]
                       ELSE scope
    /\ cur' = cur + 1
    /\ UNCHANGED <<mode, input, changes, run, revisit, call, pc, log, globalState>>

\* a node neither visitor of the traversal under way is for
SaveOtherNode ==
    /\ \/ SaveAt("declarations", {"AssignmentExpression", "removed"})
       \/ SaveAt("assignments", {"VariableDeclaration", "removed"})
    /\ cur' = cur + 1
    /\ UNCHANGED <<mode, input, ast, changes, run, revisit, call, pc, log, scope,
                   globalState>>

\* the first traversal is over: the second starts at the top of the program
SaveDeclarationsTraversed ==
    /\ mode = "saveAllObject"
    /\ pc = "declarations"
    /\ cur > Len(ast)
    /\ pc' = "assignments"
    /\ cur' = 1
    /\ UNCHANGED <<mode, input, ast, changes, run, revisit, call, log, scope,
                   globalState>>

\* the second traversal is over: the loop over scopes runs and the pass
\* returns
SaveRenameAliases ==
    /\ mode = "saveAllObject"
    /\ pc = "assignments"
    /\ cur > Len(ast)
    /\ pc' = "done"
    /\ ast' = forEachScope(ast, scope.scopes)
    /\ UNCHANGED <<mode, input, cur, changes, run, revisit, call, log, scope,
                   globalState>>

SaveAllObjectNext ==
    \/ SaveVariableDeclaration
    \/ SaveAssignmentExpression
    \/ SaveOtherNode
    \/ SaveDeclarationsTraversed
    \/ SaveRenameAliases

SpecSaveAllObject == SaveAllObjectInit /\ [][SaveAllObjectNext]_vars

\* the assignments of the input the claim is about: name["key"] = value on
\* the object recorded under (start, name), for the key named k
C11Assignments(start, k) ==
    {p \in 1..Len(input) :
        /\ input[p].type = "AssignmentExpression"
        /\ input[p].key = keyNode("StringLiteral", k)
        /\ isMergeable(input[p].e)
        /\ bindingStart(input, input[p].id, input[p].sc) = start
        /\ isObjectBinding(input, start)}

Max(S) == CHOOSE m \in S : \A n \in S : n <= m

C11Merged(start, k) ==
    LET As == C11Assignments(start, k)
        before == input[start].props
        after == ast[start].props
        at == {i \in 1..Len(after) : after[i].key.v = k}
    IN  As # {} =>
          /\ Cardinality(at) = 1
          /\ \A i \in at :
                /\ after[i].value = input[Max(As)].e
                /\ IF findIndex(before, keyNode("StringLiteral", k)) # 0
                   THEN i = findIndex(before, keyNode("StringLiteral", k))
                   ELSE i > Len(before)
          /\ \A p \in As :
                input[p].parent \in {"ExpressionStatement", "SequenceExpression"}
                    => ast[p] = removedNode

\* C11: when saveAllObject has run, for every assignment name["key"] = value
\* with a literal, identifier, binary expression, object or function as
\* value, on an object recorded under (declaration start, name), the
\* recorded object has exactly one property with that key, holding the
\* value of the last such assignment in program order (in the place of the
\* same-keyed property it had, otherwise appended), and the assignment is
\* gone from the program when its parent is an expression statement or a
\* sequence expression.
C11SaveAllObject ==
    (mode = "saveAllObject" /\ pc = "done") =>
        \A r \in globalState.objectVariables : \A k \in SaveKeys :
            C11Merged(r.start, k)

(***************************************************************************)
(* Deob.objectMemberReplace (utils/ast.ts).  The program is a list of      *)
(* nodes as for saveAllObject.  A node of type MemberExpression is a read  *)
(* id[key] below a parent of the given type; a node of type                *)
(* AssignmentExpression with a key is id[key] = e, whose left side is the  *)
(* member expression; a node of type CallExpression is the call            *)
(* id[key](arguments), its e holding the arguments.  A node whose member   *)
(* expression or call has been replaced has the type Expression and holds  *)
(* the replacement in e.  scope.usedObjects is the local usedObjects.      *)
(* The recorded objects are what saveAllObject records for the program;    *)
(* until reParse they are the object expressions of the program itself.    *)
(***************************************************************************)
\* most statements after the object declaration in an input of
\* objectMemberReplace
MaxMembers == 2

logicalExpression(operator, left, right) ==
    [t |-> "LogicalExpression", v |-> operator, es |-> <<left, right>>]

\* callee(arguments) with the callee an expression
callExpression(callee, arguments) ==
    [t |-> "CallExpression", v |-> 1, es |-> <<callee>> \o arguments]

\* the arguments of a call whose callee is the member expression of the node
memberCall(arguments) == [t |-> "CallExpression", v |-> 0, es |-> arguments]

returnStatement(argument) == [t |-> "ReturnStatement", v |-> 0, es |-> <<argument>>]

\* function (params) { body }
functionExpression(params, body) ==
    [t |-> "FunctionExpression", v |-> params, es |-> body]

\* id[key]  below a parent of the given type
memberExpression(id, key, parent, sc) ==
    objectNode("MemberExpression", id, key, opaque("none"), <<>>, parent, sc)

\* id[key](arguments);
callMember(id, key, arguments, sc) ==
    objectNode("CallExpression", id, key, memberCall(arguments), <<>>,
               "ExpressionStatement", sc)

\* what saveAllObject records for the program: every declarator with an
\* object expression as init, under its start and name
recorded(body) ==
    {[start |-> p, name |-> body[p].id] :
        p \in {q \in 1..Len(body) : /\ body[q].type = "VariableDeclaration"
                                    /\ body[q].e.t = "ObjectExpression"}}

\* globalState.objectVariables[`${start}_${objectName}`].properties, of the
\* binding of the name at node p; <<>> without binding or record
recordedProperties(body, objects, p) ==
    LET start == bindingStart(body, body[p].id, body[p].sc)
    IN  IF start # 0 /\ [start |-> start, name |-> body[p].id] \in objects
        THEN body[start].props
        ELSE <<>>

\* binding.constant && binding.constantViolations.length === 0
isConstantObject(body, p) ==
    LET start == bindingStart(body, body[p].id, body[p].sc)
    IN  start # 0 /\ objectViolations(body, start) = {}

\* path.replaceWith(value) on the member expression or call of a node
replacedBy(n, value) ==
    [n EXCEPT !.type = "Expression", !.id = 0, !.key = NoKey, !.e = value]

\* the properties the loop of the MemberExpression visitor replaces with:
\* key a string literal or identifier named as the property, value a literal
literalMatches(props, key) ==
    {i \in 1..Len(props) :
        /\ props[i].key.t \in {"StringLiteral", "Identifier"}
        /\ props[i].key.v = key.v
        /\ isLiteral(props[i].value)}

\* the MemberExpression visitor on the member expression of node p: the
\* node afterwards and what usedObjects gains
memberVisit(body, objects, p) ==
    LET n == body[p]
        props == recordedProperties(body, objects, p)
        hits == literalMatches(props, n.key)
    IN  IF \/ n.type = "AssignmentExpression"
           \/ n.parent = "AssignmentExpression"
           \/ n.key.t \notin {"StringLiteral", "Identifier"}
           \/ hits = {} \/ ~isConstantObject(body, p)
           \/ n.parent = "UpdateExpression"
        THEN [node |-> n, used |-> {}]
        ELSE [node |-> IF n.type = "CallExpression"
                       THEN [n EXCEPT !.id = 0, !.key = NoKey,
                                      !.e = callExpression(props[Max(hits)].value, n.e.es)]
                       ELSE replacedBy(n, props[Max(hits)].value),
              used |-> {[objectName |-> n.id, propertyName |-> n.key.v]}]

\* orgFn.params.findIndex(a => a.name === callFnName), then
\* argumentList.splice(callIndex, 1): the place of the argument taken out,
\* the last one when no parameter has the name
spliceIndex(params, arguments, callFnName) ==
    LET found == {i \in 1..Len(params) : params[i] = callFnName}
    IN  IF found = {} \/ Min(found) > Len(arguments) THEN Len(arguments)
        ELSE Min(found)

without(s, i) == [j \in 1..(Len(s) - 1) |-> IF j < i THEN s[j] ELSE s[j + 1]]

\* what the call is replaced with for a function that returns
\* returnArgument, or the empty sequence when it is not replaced
inlined(returnArgument, params, argumentList) ==
    IF returnArgument.t = "BinaryExpression"
    THEN <<binaryExpression(returnArgument.v, argumentList[1], argumentList[2])>>
    ELSE IF returnArgument.t = "LogicalExpression"
    THEN <<logicalExpression(returnArgument.v, argumentList[1], argumentList[2])>>
    ELSE IF returnArgument.t = "UnaryExpression"
    THEN <<unaryExpression(returnArgument.v, argumentList[1])>>
    ELSE IF returnArgument.t = "CallExpression"
    THEN LET callIndex == spliceIndex(params, argumentList, returnArgument.es[1].v)
         IN  <<callExpression(argumentList[callIndex], without(argumentList, callIndex))>>
    ELSE <<>>

\* the loop of the CallExpression visitor from property i on: the node
\* afterwards and what usedObjects gains.  name and propertyName are the
\* object and property of the callee, read before the loop; the calls of
\* the inputs pass two arguments.
RECURSIVE callVisitFrom(_, _, _, _, _, _)
callVisitFrom(n, props, i, argumentList, name, propertyName) ==
    IF i > Len(props) THEN [node |-> n, used |-> {}]
    ELSE IF ~ /\ props[i].key.t \in {"StringLiteral", "Identifier"}
              /\ props[i].value.t = "FunctionExpression"
              /\ props[i].key.v = propertyName
    THEN callVisitFrom(n, props, i + 1, argumentList, name, propertyName)
    ELSE LET orgFn == props[i].value
             isReturn == orgFn.es # <<>> /\ orgFn.es[1].t = "ReturnStatement"
             returnArgument == orgFn.es[1].es[1]
             isCallOfOther == /\ returnArgument.t = "CallExpression"
                              /\ returnArgument.es[1].t # "Identifier"
             r == inlined(returnArgument, orgFn.v, argumentList)
             rest == callVisitFrom(IF r = <<>> THEN n ELSE replacedBy(n, r[1]),
                                   props, i + 1,
                                   IF returnArgument.t = "CallExpression"
                                   THEN Tail(r[1].es) ELSE argumentList,
                                   name, propertyName)
         IN  IF ~isReturn \/ isCallOfOther THEN [node |-> n, used |-> {}]
             ELSE IF r = <<>> THEN rest
             ELSE [node |-> rest.node,
                   used |-> rest.used \cup
                        {[objectName |-> name, propertyName |-> propertyName]}]

\* the CallExpression visitor on node p
callVisit(body, objects, p) ==
    IF body[p].type = "CallExpression" /\ body[p].id # 0
    THEN callVisitFrom(body[p], recordedProperties(body, objects, p), 1,
                       body[p].e.es, body[p].id, body[p].key.v)
    ELSE [node |-> body[p], used |-> {}]

\* the ObjectProperty visitor on the object expression of node p: the
\* properties that stay.  objectName is the name declared or assigned to.
propertiesKept(n, usedObjects) ==
    LET keep == {i \in 1..Len(n.props) :
                    [objectName |-> n.id, propertyName |-> n.props[i].key.v]
                        \notin usedObjects}
        RECURSIVE from(_)
        from(i) == IF i > Len(n.props) THEN <<>>
                   ELSE IF i \in keep THEN <<n.props[i]>> \o from(i + 1)
                   ELSE from(i + 1)
    IN  from(1)

\* ---- the inputs --------------------------------------------------------
\* the names: 1 the object, 3 a name bound nowhere, 4 and 5 the parameters
\* a and b of a function of the object, 6 and 7 the arguments x and y
ReturnArguments ==
    {binaryExpression("-", Id(4), Id(5)), binaryExpression("-", Id(5), Id(4)),
     logicalExpression("||", Id(4), Id(5)),
     unaryExpression("!", Id(4)), unaryExpression("!", Id(5)),
     callExpression(Id(4), <<Id(5)>>), Id(4)}

FunctionBodies ==
    {<<returnStatement(r)>> : r \in ReturnArguments}
    \cup {<<returnStatement(binaryExpression("-", Id(4), Id(5))),
            opaque("ExpressionStatement")>>,
          <<opaque("ExpressionStatement"),
            returnStatement(binaryExpression("-", Id(4), Id(5)))>>}

LiteralProperty == objectProperty(keyNode("StringLiteral", "k"), NumericLiteral(0))

FunctionProperties ==
    {objectProperty(keyNode("StringLiteral", "f"), functionExpression(<<4, 5>>, b)) :
        b \in FunctionBodies}

MemberObjects ==
    {<<LiteralProperty>>}
    \cup {<<f>> : f \in FunctionProperties}
    \cup {<<LiteralProperty, f>> : f \in FunctionProperties}

MemberStatements ==
    {memberExpression(1, keyNode("StringLiteral", "k"), parent, 0) :
        parent \in {"ExpressionStatement", "CallExpression", "UpdateExpression",
                    "AssignmentExpression", "VariableDeclarator"}}
    \cup {memberExpression(1, keyNode("Identifier", "k"), "ExpressionStatement", 0),
          memberExpression(1, keyNode("StringLiteral", "k"), "ExpressionStatement", 1),
          memberExpression(1, keyNode("StringLiteral", "k"), "UpdateExpression", 1),
          memberAssignment(1, keyNode("StringLiteral", "k"), opaque("CallExpression"),
                           "ExpressionStatement", 0),
          callMember(1, keyNode("StringLiteral", "f"), <<Id(6), Id(7)>>, 0),
          assignment(1, Id(3), 0),
          objectDeclaration(1, <<LiteralProperty>>, 1)}

MemberPrograms(members) ==
    {<<objectDeclaration(1, props, 0)>> \o rest :
        props \in MemberObjects,
        rest \in UNION {[1..n -> MemberStatements] : n \in 1..members}}

ObjectMemberReplaceInit ==
    /\ mode = "objectMemberReplace"
    /\ input \in MemberPrograms(MaxMembers)
    /\ ast = input
    /\ cur = 1
    /\ changes = 0
    /\ run = 0
    /\ revisit = FALSE
    /\ call = <<>>
    /\ pc = "members"
    /\ log = <<>>
    /\ scope = [usedObjects |-> {}]
    /\ globalState = [EmptyState EXCEPT !.objectVariables = recorded(input)]

MemberAt(phase) ==
    /\ mode = "objectMemberReplace"
    /\ pc = phase
    /\ cur <= Len(ast)

hasMember(n) ==
    n.key # NoKey /\ n.type \in {"MemberExpression", "AssignmentExpression",
                                 "CallExpression"}

hasObject(n) ==
    /\ n.type \in {"VariableDeclaration", "AssignmentExpression"}
    /\ n.key = NoKey /\ n.e.t = "ObjectExpression"

\* first traversal: the MemberExpression visitor
MemberExpressionEnter ==
    /\ MemberAt("members")
    /\ hasMember(ast[cur])
    /\ LET r == memberVisit(ast, globalState.objectVariables, cur)
       IN  /\ ast' = [ast EXCEPT ![cur] = r.node]
           /\ scope' = [scope EXCEPT !.usedObjects = @ \cup r.used]
    /\ cur' = cur + 1
    /\ UNCHANGED <<mode, input, changes, run, revisit, call, pc, log, globalState>>

\* second traversal: the CallExpression visitor
CallExpressionEnter ==
    /\ MemberAt("calls")
    /\ ast[cur].type = "CallExpression"
    /\ LET r == callVisit(ast, globalState.objectVariables, cur)
       IN  /\ ast' = [ast EXCEPT ![cur] = r.node]
           /\ scope' = [scope EXCEPT !.usedObjects = @ \cup r.used]
    /\ cur' = cur + 1
    /\ UNCHANGED <<mode, input, changes, run, revisit, call, pc, log, globalState>>

\* third traversal: the ObjectProperty visitor on every property of the
\* object expression of a declarator or assignment
ObjectPropertyEnter ==
    /\ MemberAt("properties")
    /\ hasObject(ast[cur])
    /\ ast' = [ast EXCEPT ![cur].props = propertiesKept(ast[cur], scope.usedObjects)]
    /\ cur' = cur + 1
    /\ UNCHANGED <<mode, input, changes, run, revisit, call, pc, log, scope,
                   globalState>>

\* a node the visitor of the traversal under way is not for
MemberOtherNode ==
    /\ \/ MemberAt("members") /\ ~hasMember(ast[cur])
       \/ MemberAt("calls") /\ ast[cur].type # "CallExpression"
       \/ MemberAt("properties") /\ ~hasObject(ast[cur])
    /\ cur' = cur + 1
    /\ UNCHANGED <<mode, input, ast, changes, run, revisit, call, pc, log, scope,
                   globalState>>

\* a traversal is over: the next one starts at the top of the program;
\* after the second the code is generated and parsed again
MemberTraversed ==
    /\ mode = "objectMemberReplace"
    /\ pc \in {"members", "calls", "properties"}
    /\ cur > Len(ast)
    /\ pc' = CASE pc = "members" -> "calls"
               [] pc = "calls" -> "reParse"
               [] pc = "properties" -> "done"
    /\ cur' = 1
    /\ UNCHANGED <<mode, input, ast, changes, run, revisit, call, log, scope,
                   globalState>>

\* this.reParse(): the program read again is the program written; the
\* recorded objects stay those of the tree before, which the pass reads no
\* more.  The third traversal runs if (!isEmpty(usedObjects)).
MemberReParse ==
    /\ mode = "objectMemberReplace"
    /\ pc = "reParse"
    /\ pc' = IF scope.usedObjects # {} THEN "properties" ELSE "done"
    /\ UNCHANGED <<mode, input, ast, cur, changes, run, revisit, call, log, scope,
                   globalState>>

ObjectMemberReplaceNext ==
    \/ MemberExpressionEnter
    \/ CallExpressionEnter
    \/ ObjectPropertyEnter
    \/ MemberOtherNode
    \/ MemberTraversed
    \/ MemberReParse

SpecObjectMemberReplace == ObjectMemberReplaceInit /\ [][ObjectMemberReplaceNext]_vars

\* the member reads of the input the claim is about: on a recorded object
\* whose binding is constant and whose recorded property of that name has
\* a literal value
C12Reads ==
    {p \in 1..Len(input) :
        /\ hasMember(input[p])
        /\ input[p].type # "CallExpression"
        /\ isConstantObject(input, p)
        /\ literalMatches(recordedProperties(input, recorded(input), p),
                          input[p].key) # {}}

C12Value(p) ==
    LET props == recordedProperties(input, recorded(input), p)
    IN  props[Max(literalMatches(props, input[p].key))].value

\* C12: when the MemberExpression traversal of objectMemberReplace is over,
\* every member expression on a recorded object whose binding is constant
\* and whose recorded property has a literal value has been replaced by
\* that value, the right-hand side of an assignment like any other read,
\* except that the operand of an update expression and the left side of an
\* assignment are left as they were.
C12MemberReplaced ==
    (mode = "objectMemberReplace" /\ pc # "members") =>
        \A p \in C12Reads :
            IF \/ input[p].type = "AssignmentExpression"
               \/ input[p].parent = "UpdateExpression"
            THEN ast[p] = input[p]
            ELSE ast[p] = replacedBy(input[p], C12Value(p))

\* the expression with each parameter replaced by the actual argument at
\* that parameter's position
RECURSIVE C13Substitute(_, _, _)
C13Substitute(e, params, arguments) ==
    IF e.t = "Identifier"
    THEN IF \E i \in 1..Len(params) : params[i] = e.v
         THEN arguments[CHOOSE i \in 1..Len(params) : params[i] = e.v]
         ELSE e
    ELSE [e EXCEPT !.es = [i \in 1..Len(e.es) |->
                              C13Substitute(e.es[i], params, arguments)]]

\* the function the call of node p of the input calls: the recorded
\* property of the callee's name that is a function
C13Functions(p) ==
    LET props == recordedProperties(input, recorded(input), p)
    IN  {props[i].value : i \in {j \in 1..Len(props) :
                                    /\ props[j].key.v = input[p].key.v
                                    /\ props[j].value.t = "FunctionExpression"}}

\* a single return of a binary, logical or unary expression
C13Inlinable(fn) ==
    /\ Len(fn.es) = 1
    /\ fn.es[1].t = "ReturnStatement"
    /\ fn.es[1].es[1].t \in {"BinaryExpression", "LogicalExpression", "UnaryExpression"}

\* C13: when the CallExpression traversal of objectMemberReplace is over, a
\* call obj["k"](a1, ..., an) whose recorded property k is a function that
\* is a single return of a binary, logical or unary expression over its
\* parameters has been replaced by the returned expression with each
\* parameter replaced by the argument at that parameter's position, and a
\* call of a function whose body has more than the single return is as it
\* was.
C13CallInlined ==
    (mode = "objectMemberReplace" /\ pc \notin {"members", "calls"}) =>
        \A p \in 1..Len(input) :
            input[p].type = "CallExpression" =>
                \A fn \in C13Functions(p) :
                    /\ C13Inlinable(fn) =>
                          ast[p] = replacedBy(input[p],
                                      C13Substitute(fn.es[1].es[1], fn.v, input[p].e.es))
                    /\ Len(fn.es) > 1 => ast[p] = input[p]

\* the accesses to the key named k of the object declared at d that the
\* program holds: reads, writes and calls
C14Accesses(body, d, k) ==
    {p \in 1..Len(body) :
        /\ hasMember(body[p])
        /\ body[p].key.v = k
        /\ bindingStart(input, body[p].id, body[p].sc) = d}

\* the keys of a list of properties
C14Keys(props) == {props[i].key.v : i \in 1..Len(props)}

\* C14: when objectMemberReplace has run, a property is gone from an object
\* literal only if the pair of that object's binding and that key was
\* consumed by an inlining of this pass, and only if no access to that key
\* of that object is left in the program; a different object of the same
\* name in another scope keeps its properties.
C14PropertyRemoved ==
    (mode = "objectMemberReplace" /\ pc = "done") =>
        \A d \in 1..Len(input) :
            \A k \in C14Keys(input[d].props) \ C14Keys(ast[d].props) :
                /\ \E p \in C14Accesses(input, d, k) : ast[p].type = "Expression"
                /\ C14Accesses(ast, d, k) = {}

(***************************************************************************)
(* Deob.controlFlowFlat (utils/ast.ts).  ast is the body of the block      *)
(* statement that holds the loop, a list of statements.  A statement has   *)
(* its type, an id that tells the plain statements apart, the declarators  *)
(* of a variable declaration (each the name declared and the characters    *)
(* of the string that is split, none for another init), the cases of the   *)
(* switch of a loop (each a test and the statements of its consequent),    *)
(* block: whether the body of the loop is a block statement that holds     *)
(* the switch or the switch itself, and init: the assignments of the       *)
(* sequence expression a for statement has as init, as declarators.        *)
(* scope.sequences is what the visitor pushed, scope.emitted whether it    *)
(* pushed.                                                                 *)
(***************************************************************************)
\* most cases of a switch of an input
MaxCases == 2

statement(type, id, declarations, cases, isBlock, init) ==
    [type |-> type, id |-> id, declarations |-> declarations, cases |-> cases,
     block |-> isBlock, init |-> init]

plainStatement(type, id) == statement(type, id, <<>>, <<>>, FALSE, <<>>)

continueStatement == plainStatement("ContinueStatement", 0)

\* what an array gives for an index it does not have
undefined == plainStatement("undefined", 0)

\* name = "s1|s2|..."["split"]("|")  or, with no characters, name = 0
declarator(name, string) == [id |-> name, string |-> string]

switchCase(test, consequent) == [test |-> test, consequent |-> consequent]

\* String.prototype.split for a separator of one character
RECURSIVE split(_, _)
split(string, separator) ==
    IF \A i \in 1..Len(string) : string[i] # separator THEN <<string>>
    ELSE LET i == Min({j \in 1..Len(string) : string[j] = separator})
         IN  <<SubSeq(string, 1, i - 1)>> \o split(SubSeq(string, i + 1, Len(string)),
                                                   separator)

\* myArr[s] for a string s: the element at the index s is the canonical
\* decimal numeral of, undefined for any other property name
elementAt(myArr, s) ==
    IF /\ s # <<>>
       /\ \A i \in 1..Len(s) : \E d \in 1..10 : DecimalDigits[d] = s[i]
       /\ Digits(DigitsValue(s)) = s
       /\ DigitsValue(s) < Len(myArr)
    THEN myArr[DigitsValue(s) + 1]
    ELSE undefined

\* path.node.cases.filter(p => p.test?.type === 'StringLiteral')
\*                .map(p => p.consequent[0])
firstStatements(cases) ==
    LET strings == SelectSeq(cases, LAMBDA c : c.test.t = "StringLiteral")
    IN  [i \in 1..Len(strings) |->
            IF strings[i].consequent = <<>> THEN undefined
            ELSE strings[i].consequent[1]]

\* shufferArr.map(s => myArr[s]).filter(s => s?.type !== 'ContinueStatement')
sequencesOf(shufferArr, myArr) ==
    SelectSeq([i \in 1..Len(shufferArr) |-> elementAt(myArr, shufferArr[i])],
              LAMBDA s : s.type # "ContinueStatement")

\* the place in the block of the first declaration with a declarator whose
\* init splits a string literal, 0 when there is none
splitAt(body) ==
    LET found == {i \in 1..Len(body) :
                    \E j \in 1..Len(body[i].declarations) :
                        body[i].declarations[j].string # <<>>}
    IN  IF found = {} THEN 0 ELSE Min(found)

splitDeclarator(s) ==
    Min({j \in 1..Len(s.declarations) : s.declarations[j].string # <<>>})

\* VariableDeclarator.remove(): the declaration goes with its last declarator
removeDeclarator(body, i) ==
    LET j == splitDeclarator(body[i])
        rest == [k \in 1..(Len(body[i].declarations) - 1) |->
                    IF k < j THEN body[i].declarations[k]
                    ELSE body[i].declarations[k + 1]]
    IN  IF rest = <<>>
        THEN SubSeq(body, 1, i - 1) \o SubSeq(body, i + 1, Len(body))
        ELSE [body EXCEPT ![i].declarations = rest]

isLoop(s) == s.type \in {"WhileStatement", "ForStatement"}

\* the SwitchStatement visitor on the switch of the loop at place p of the
\* block: the block afterwards, what was pushed, and whether it pushed
switchVisit(body, p) ==
    LET at == splitAt(body)
        shufferArr == split(body[at].declarations[splitDeclarator(body[at])].string, "|")
        removed == removeDeclarator(body, at)
        sequences == sequencesOf(shufferArr, firstStatements(body[p].cases))
        pushed == removed \o sequences
        loopAt == CHOOSE i \in 1..Len(removed) : removed[i] = body[p]
    IN  IF at = 0 THEN [body |-> body, sequences |-> <<>>, emitted |-> FALSE]
        ELSE [body |-> IF body[p].block
                       THEN SubSeq(pushed, 1, loopAt - 1)
                                \o SubSeq(pushed, loopAt + 1, Len(pushed))
                       ELSE pushed,
              sequences |-> sequences, emitted |-> TRUE]

\* the ForStatement visitor of transformForLoop on the statement: the
\* assignments of the init become declarations before the loop
forLoop(s) ==
    IF s.type = "ForStatement" /\ s.init # <<>>
    THEN [i \in 1..Len(s.init) |->
             statement("VariableDeclaration", 0, <<s.init[i]>>, <<>>, FALSE, <<>>)]
         \o <<[s EXCEPT !.init = <<>>]>>
    ELSE <<s>>

RECURSIVE transformForLoop(_)
transformForLoop(body) ==
    IF body = <<>> THEN <<>>
    ELSE forLoop(Head(body)) \o transformForLoop(Tail(body))

\* ---- the inputs --------------------------------------------------------
\* the label of the case numbered n: "0", "1", ...
LabelOf(n) == Digits(n - 1)

RECURSIVE join(_, _)
join(strings, separator) ==
    IF strings = <<>> THEN <<>>
    ELSE IF Len(strings) = 1 THEN strings[1]
    ELSE strings[1] \o <<separator>> \o join(Tail(strings), separator)

Orders(n) ==
    {f \in [1..n -> 1..n] : \A i, j \in 1..n : f[i] = f[j] => i = j}

\* the consequents of the case at place c of the switch
Consequents(c) ==
    {<<plainStatement("ExpressionStatement", 10 * c + 1), continueStatement>>,
     <<continueStatement>>,
     <<plainStatement("ExpressionStatement", 10 * c + 1),
       plainStatement("ExpressionStatement", 10 * c + 2), continueStatement>>,
     <<plainStatement("ReturnStatement", 10 * c + 1)>>}

\* the switches of n cases with string labels, with or without a case
\* with a number as test before them
SwitchCases(n) ==
    LET labelled == {[c \in 1..n |-> switchCase(StringLiteral(LabelOf(f[c])), b[c])] :
                        f \in Orders(n),
                        b \in {g \in [1..n -> UNION {Consequents(c) : c \in 1..n}] :
                                  \A c \in 1..n : g[c] \in Consequents(c)}}
    IN  labelled \cup
        {<<switchCase(NumericLiteral(0), <<continueStatement>>)>> \o cs : cs \in labelled}

Alphabets(n) ==
    {join([i \in 1..n |-> LabelOf(f[i])], "|") : f \in Orders(n)}

\* var w = "..."["split"]("|"), i = 0
AlphabetDeclarators(string) == <<declarator(1, string), declarator(2, <<>>)>>

\* the declaration of the alphabet, if any, and the loop
FlatLoops(n) ==
    UNION {
        {<<statement("VariableDeclaration", 0, AlphabetDeclarators(a), <<>>, FALSE, <<>>),
           statement(type, 0, <<>>, cs, isBlock, <<>>)>> :
            type \in {"WhileStatement", "ForStatement"}, isBlock \in BOOLEAN}
        \cup {<<statement("ForStatement", 0, <<>>, cs, isBlock, AlphabetDeclarators(a))>> :
                 isBlock \in BOOLEAN}
        \cup {<<statement("WhileStatement", 0, <<>>, cs, TRUE, <<>>)>>} :
        a \in Alphabets(n), cs \in SwitchCases(n)}

\* the programs whose switch has up to cases cases
FlatPrograms(cases) ==
    {before \o loop \o after :
        before \in {<<>>, <<plainStatement("ExpressionStatement", 1)>>},
        loop \in UNION {FlatLoops(n) : n \in 1..cases},
        after \in {<<>>, <<plainStatement("ExpressionStatement", 2)>>}}

ControlFlowFlatInit ==
    /\ mode = "controlFlowFlat"
    /\ input \in FlatPrograms(MaxCases)
    /\ ast = input
    /\ cur = 1
    /\ changes = 0
    /\ run = 0
    /\ revisit = FALSE
    /\ call = <<>>
    /\ pc = "transformForLoop"
    /\ log = <<>>
    /\ scope = [sequences |-> <<>>, emitted |-> FALSE]
    /\ globalState = EmptyState

\* this.transformForLoop(): its traversal and its reParse
FlatTransformForLoop ==
    /\ mode = "controlFlowFlat"
    /\ pc = "transformForLoop"
    /\ ast' = transformForLoop(ast)
    /\ pc' = "traverse"
    /\ UNCHANGED <<mode, input, cur, changes, run, revisit, call, log, scope,
                   globalState>>

\* the nodes of the block the traversal has yet to come to: what the
\* visitor pushed is not queued
FlatAt ==
    /\ mode = "controlFlowFlat"
    /\ pc = "traverse"
    /\ cur <= Len(ast) - Len(scope.sequences)

\* the SwitchStatement visitor, on the switch of the loop the traversal has
\* come to
FlatSwitchStatement ==
    /\ FlatAt
    /\ isLoop(ast[cur])
    /\ LET r == switchVisit(ast, cur)
       IN  /\ ast' = r.body
           /\ scope' = [sequences |-> r.sequences, emitted |-> r.emitted]
           /\ cur' = Len(r.body) - Len(r.sequences) - (Len(ast) - cur) + 1
    /\ UNCHANGED <<mode, input, changes, run, revisit, call, pc, log, globalState>>

\* a statement that holds no switch
FlatOtherNode ==
    /\ FlatAt
    /\ ~isLoop(ast[cur])
    /\ cur' = cur + 1
    /\ UNCHANGED <<mode, input, ast, changes, run, revisit, call, pc, log, scope,
                   globalState>>

FlatTraversed ==
    /\ mode = "controlFlowFlat"
    /\ pc = "traverse"
    /\ cur > Len(ast) - Len(scope.sequences)
    /\ pc' = "done"
    /\ UNCHANGED <<mode, input, ast, cur, changes, run, revisit, call, log, scope,
                   globalState>>

ControlFlowFlatNext ==
    \/ FlatTransformForLoop
    \/ FlatSwitchStatement
    \/ FlatOtherNode
    \/ FlatTraversed

SpecControlFlowFlat == ControlFlowFlatInit /\ [][ControlFlowFlatNext]_vars

\* the loop of the input and what it is flattened by
C15Loop == input[CHOOSE i \in 1..Len(input) : isLoop(input[i])]

C15Alphabet ==
    LET all == transformForLoop(input)
        at == splitAt(all)
    IN  split(all[at].declarations[splitDeclarator(all[at])].string, "|")

\* the claim is about loops whose cases all have string labels
C15StringLabelled == \A i \in 1..Len(C15Loop.cases) : C15Loop.cases[i].test.t = "StringLiteral"

\* the complete body of the case whose label is s, without its trailing
\* continue
C15BodyOf(s) ==
    LET c == CHOOSE i \in 1..Len(C15Loop.cases) : C15Loop.cases[i].test.v = s
        b == C15Loop.cases[c].consequent
    IN  IF b # <<>> /\ b[Len(b)] = continueStatement THEN SubSeq(b, 1, Len(b) - 1) ELSE b

RECURSIVE C15Expected(_)
C15Expected(alphabet) ==
    IF alphabet = <<>> THEN <<>>
    ELSE C15BodyOf(Head(alphabet)) \o C15Expected(Tail(alphabet))

\* C15: for a flattened loop with alphabet "s1|...|sn" and string-labelled
\* cases, the statements emitted are, for i = 1..n in that order, the
\* complete body of the case whose label equals si without its trailing
\* continue, whatever the textual order of the cases and however many
\* statements a body has.
C15Ordering ==
    (mode = "controlFlowFlat" /\ scope.emitted /\ C15StringLabelled) =>
        scope.sequences = C15Expected(C15Alphabet)

\* C16: whenever the reordered statements are emitted, the loop that
\* wrapped the switch and the alphabet declarator are both gone, and the
\* emitted statements are where the loop was: after the statements that
\* preceded the loop and before those that followed it.
C16Placement ==
    (mode = "controlFlowFlat" /\ scope.emitted) =>
        LET all == transformForLoop(input)
            base == removeDeclarator(all, splitAt(all))
            loopAt == CHOOSE i \in 1..Len(base) : isLoop(base[i])
        IN  ast = SubSeq(base, 1, loopAt - 1) \o scope.sequences
                    \o SubSeq(base, loopAt + 1, Len(base))

(***************************************************************************)
(* Deob.removeUnusedVariables (utils/ast.ts).  The program is a list of    *)
(* nodes in source order: declarators  var id = init,  function            *)
(* declarations  function id(params) { },  references to a name and        *)
(* assignments to a name.  sc is the scope a node lies in: 0 the program,  *)
(* 1 the body of the function declared by the first node of the program.   *)
(* The scope of the path of a function declaration is the scope of the     *)
(* function itself, which holds its parameters; the name of the function   *)
(* is bound in the scope the declaration lies in.  call holds the two      *)
(* arguments of the pass.                                                  *)
(***************************************************************************)
\* most nodes after the first function declaration in an input of
\* removeUnusedVariables
MaxDeclarations == 2

unusedNode(type, id, init, params, sc) ==
    [type |-> type, id |-> id, init |-> init, params |-> params, sc |-> sc]

\* var id = init, the init given by its type
unusedDeclarator(id, init, sc) == unusedNode("VariableDeclarator", id, init, <<>>, sc)

functionDeclaration(id, params, sc) ==
    unusedNode("FunctionDeclaration", id, "none", params, sc)

unusedReference(id, sc) == unusedNode("Reference", id, "none", <<>>, sc)

unusedAssignment(id, sc) == unusedNode("Assignment", id, "none", <<>>, sc)

unusedRemoved == unusedNode("removed", 0, "none", <<>>, 0)

\* the nodes that declare the name in the scope
declarationsIn(body, name, sc) ==
    {p \in 1..Len(body) :
        /\ body[p].type \in {"VariableDeclarator", "FunctionDeclaration"}
        /\ body[p].id = name /\ body[p].sc = sc}

\* the scope, from sc outwards, that has a binding of the name; -1 for none
bindingScope(body, name, sc) ==
    IF declarationsIn(body, name, sc) # {} THEN sc
    ELSE IF sc = 1 /\ declarationsIn(body, name, 0) # {} THEN 0
    ELSE -1

\* the binding of the name that scope sc has: its scope, referencePaths and
\* constantViolations
bindingIn(body, name, sc) ==
    LET bound(types) == {p \in 1..Len(body) :
                            /\ body[p].type \in types /\ body[p].id = name
                            /\ bindingScope(body, name, body[p].sc) = sc}
    IN  [scope |-> sc,
         referencePaths |-> bound({"Reference"}),
         constantViolations |->
             bound({"Assignment"})
             \cup (declarationsIn(body, name, sc) \ {Min(declarationsIn(body, name, sc))})]

\* the binding of a parameter of a function of the inputs: the function
\* has no body that could refer or assign to it
parameterBinding == [scope |-> 2, referencePaths |-> {}, constantViolations |-> {}]

unbound == [scope |-> -1, referencePaths |-> {}, constantViolations |-> {}]

\* path.scope.getBinding(name) for the declaration at p: from the scope the
\* declarator lies in, or from the scope of the function declared
pathGetBinding(body, p) ==
    LET n == body[p]
        isNamed == \E i \in 1..Len(n.params) : n.params[i] = n.id
        from == IF n.type = "FunctionDeclaration" /\ p = 1 THEN 1 ELSE n.sc
    IN  IF n.type = "FunctionDeclaration" /\ isNamed THEN parameterBinding
        ELSE IF bindingScope(body, n.id, from) = -1 THEN unbound
        ELSE bindingIn(body, n.id, bindingScope(body, n.id, from))

\* processDeclaration(path, name): whether it removes the declaration
processDeclaration(body, p, variableNames, excludeProgram) ==
    LET binding == pathGetBinding(body, p)
    IN  /\ ~(variableNames.given /\ body[p].id \notin variableNames.names)
        /\ binding # unbound
        /\ binding.constantViolations = {}
        /\ binding.referencePaths = {}
        /\ ~(excludeProgram /\ binding.scope = 0)

\* path.remove() of the declaration at p: a function goes with its body
removeDeclaration(body, p) ==
    [q \in 1..Len(body) |->
        IF q = p \/ (p = 1 /\ body[q].sc = 1) THEN unusedRemoved ELSE body[q]]

\* ---- the inputs --------------------------------------------------------
\* the names: 1 and 2, and 9 for the function whose body is scope 1
UnusedNodes ==
    {unusedDeclarator(id, init, sc) :
        id \in {1, 2}, init \in {"NumericLiteral", "CallExpression"}, sc \in {0, 1}}
    \cup {functionDeclaration(1, params, sc) :
             params \in {<<>>, <<1>>, <<2>>}, sc \in {0, 1}}
    \cup {unusedReference(id, sc) : id \in {1, 2}, sc \in {0, 1}}
    \cup {unusedAssignment(1, sc) : sc \in {0, 1}}
    \cup {unusedReference(9, 0)}

UnusedPrograms ==
    {<<functionDeclaration(9, <<>>, 0)>> \o rest :
        rest \in UNION {[1..n -> UnusedNodes] : n \in 1..MaxDeclarations}}

RemoveUnusedVariablesInit ==
    /\ mode = "removeUnusedVariables"
    /\ input \in UnusedPrograms
    /\ ast = input
    /\ cur = 1
    /\ changes = 0
    /\ run = 0
    /\ revisit = FALSE
    /\ call \in {[variableNames |-> v, excludeProgram |-> x] :
                    v \in {[given |-> FALSE, names |-> {}], [given |-> TRUE, names |-> {1}]},
                    x \in BOOLEAN}
    /\ pc = "traverse"
    /\ log = <<>>
    /\ scope = [uids |-> {}]
    /\ globalState = EmptyState

VariablesAt(types) ==
    /\ mode = "removeUnusedVariables"
    /\ pc = "traverse"
    /\ cur <= Len(ast)
    /\ ast[cur].type \in types

\* the VariableDeclarator visitor
VariablesDeclarator ==
    /\ VariablesAt({"VariableDeclarator"})
    /\ ast' = IF /\ ast[cur].init \in {"NumericLiteral", "ObjectExpression",
                                      "FunctionExpression"}
                 /\ processDeclaration(input, cur, call.variableNames, call.excludeProgram)
              THEN removeDeclaration(ast, cur)
              ELSE ast
    /\ cur' = cur + 1
    /\ UNCHANGED <<mode, input, changes, run, revisit, call, pc, log, scope,
                   globalState>>

\* the FunctionDeclaration visitor
VariablesFunctionDeclaration ==
    /\ VariablesAt({"FunctionDeclaration"})
    /\ ast' = IF processDeclaration(input, cur, call.variableNames, call.excludeProgram)
              THEN removeDeclaration(ast, cur)
              ELSE ast
    /\ cur' = cur + 1
    /\ UNCHANGED <<mode, input, changes, run, revisit, call, pc, log, scope,
                   globalState>>

\* a node that declares nothing, or that went with its function
VariablesOtherNode ==
    /\ VariablesAt({"Reference", "Assignment", "removed"})
    /\ cur' = cur + 1
    /\ UNCHANGED <<mode, input, ast, changes, run, revisit, call, pc, log, scope,
                   globalState>>

VariablesTraversed ==
    /\ mode = "removeUnusedVariables"
    /\ pc = "traverse"
    /\ cur > Len(ast)
    /\ pc' = "done"
    /\ UNCHANGED <<mode, input, ast, cur, changes, run, revisit, call, log, scope,
                   globalState>>

RemoveUnusedVariablesNext ==
    \/ VariablesDeclarator
    \/ VariablesFunctionDeclaration
    \/ VariablesOtherNode
    \/ VariablesTraversed

SpecRemoveUnusedVariables ==
    RemoveUnusedVariablesInit /\ [][RemoveUnusedVariablesNext]_vars

\* the declarations of the input that the pass itself has removed: not
\* those that went with the function they lie in
C17Removed ==
    {p \in 1..Len(input) :
        /\ input[p].type \in {"VariableDeclarator", "FunctionDeclaration"}
        /\ ast[p] = unusedRemoved
        /\ input[p].sc = 1 => ast[1] # unusedRemoved}

\* C17: a declarator or function declaration is removed only if its
\* binding has no reference and no constant violation and, when
\* excludeProgram is true, is not in program scope, and, when variableNames
\* is given, its name is in the list; so every declaration with a
\* reference or a reassignment survives.
C17RemovedOnlyUnused ==
    mode = "removeUnusedVariables" =>
        \A p \in C17Removed :
            LET binding == bindingIn(input, input[p].id, input[p].sc)
            IN  /\ binding.referencePaths = {}
                /\ binding.constantViolations = {}
                /\ call.excludeProgram => input[p].sc # 0
                /\ call.variableNames.given => input[p].id \in call.variableNames.names

(***************************************************************************)
(* Deob.markComment (utils/ast.ts).  The program is a list of nodes: a     *)
(* debugger statement, a call expression (its callee an identifier or a    *)
(* member expression with a string as property), or another statement,     *)
(* with the identifiers and strings it holds in names.  leadingComments    *)
(* are the values of the leading comments of the node, first first.  call  *)
(* holds the keywords the pass is given; log holds the program as each run *)
(* of the pass left it.                                                    *)
(***************************************************************************)
\* most nodes of an input of markComment
MaxMarked == 2

\* how many times the pass is run on a program
MaxRuns == 2

\* the default of the parameter label
Label == " TOLOOK"

markNode(type, callee, names, leadingComments) ==
    [type |-> type, callee |-> callee, names |-> names,
     leadingComments |-> leadingComments]

\* String.prototype.toLowerCase on the strings of the inputs
toLowerCase(s) ==
    CASE s = "Eval" -> "eval"
      [] s = "EVAL" -> "eval"
      [] OTHER -> s

\* [...new Set([...keywords.map(k => k.toLowerCase()), ...defaultKeywords])]
keywordsOf(keywords) ==
    {toLowerCase(keywords[i]) : i \in 1..Len(keywords)} \cup {"debugger"}

\* path.addComment('leading', label, true): the comment goes before the
\* leading comments the node has
addComment(n, label) == [n EXCEPT !.leadingComments = <<label>> \o @]

\* the DebuggerStatement visitor: find(c => (c.value = label)) gives the
\* first comment its value label and finds it
markDebugger(n, label) ==
    IF n.leadingComments # <<>>
    THEN [n EXCEPT !.leadingComments[1] = label]
    ELSE addComment(n, label)

\* the CallExpression visitor; the callee is <<"member", property.value>>
\* or <<"identifier", name>>
markCall(n, label) ==
    IF n.callee[2] \in {"setTimeout", "setInterval"} THEN addComment(n, label) ELSE n

\* the StringLiteral and Identifier visitors on the names of a statement,
\* from name i on: the statement is commented once for each name that is
\* a keyword
RECURSIVE markNames(_, _, _, _)
markNames(n, i, keywords, label) ==
    IF i > Len(n.names) THEN n
    ELSE markNames(IF toLowerCase(n.names[i]) \in keywords
                   THEN addComment(n, label) ELSE n,
                   i + 1, keywords, label)

\* ---- the inputs --------------------------------------------------------
MarkNodes ==
    {markNode("DebuggerStatement", <<>>, <<>>, c) :
        c \in {<<>>, <<"note">>, <<"note", "other">>}}
    \cup {markNode("CallExpression", callee, <<>>, c) :
             callee \in {<<"identifier", "setTimeout">>, <<"identifier", "f">>,
                         <<"member", "setInterval">>},
             c \in {<<>>, <<"note">>}}
    \cup {markNode("ExpressionStatement", <<>>, names, c) :
             names \in {<<>>, <<"eval">>, <<"Eval">>, <<"eval", "eval">>, <<"debugger">>},
             c \in {<<>>, <<"note">>}}

MarkPrograms == UNION {[1..n -> MarkNodes] : n \in 1..MaxMarked}

MarkCommentInit ==
    /\ mode = "markComment"
    /\ input \in MarkPrograms
    /\ ast = input
    /\ cur = 1
    /\ changes = 0
    /\ run = 0
    /\ revisit = FALSE
    /\ call \in {[keywords |-> k, label |-> Label] : k \in {<<>>, <<"EVAL">>}}
    /\ pc = "traverse"
    /\ log = <<>>
    /\ scope = [uids |-> {}]
    /\ globalState = EmptyState

MarkAt(types) ==
    /\ mode = "markComment"
    /\ pc = "traverse"
    /\ cur <= Len(ast)
    /\ ast[cur].type \in types

MarkDebuggerStatement ==
    /\ MarkAt({"DebuggerStatement"})
    /\ ast' = [ast EXCEPT ![cur] = markDebugger(@, call.label)]
    /\ cur' = cur + 1
    /\ UNCHANGED <<mode, input, changes, run, revisit, call, pc, log, scope,
                   globalState>>

MarkCallExpression ==
    /\ MarkAt({"CallExpression"})
    /\ ast' = [ast EXCEPT ![cur] = markCall(@, call.label)]
    /\ cur' = cur + 1
    /\ UNCHANGED <<mode, input, changes, run, revisit, call, pc, log, scope,
                   globalState>>

\* the StringLiteral and Identifier visitors, on the names of a statement
MarkKeywords ==
    /\ MarkAt({"ExpressionStatement"})
    /\ ast' = [ast EXCEPT ![cur] = markNames(@, 1, keywordsOf(call.keywords), call.label)]
    /\ cur' = cur + 1
    /\ UNCHANGED <<mode, input, changes, run, revisit, call, pc, log, scope,
                   globalState>>

\* the traversal is over: the pass returns
MarkTraversed ==
    /\ mode = "markComment"
    /\ pc = "traverse"
    /\ cur > Len(ast)
    /\ pc' = "done"
    /\ run' = run + 1
    /\ log' = Append(log, ast)
    /\ UNCHANGED <<mode, input, ast, cur, changes, revisit, call, scope, globalState>>

\* the pass is run once more on the program it left
MarkAgain ==
    /\ mode = "markComment"
    /\ pc = "done"
    /\ run < MaxRuns
    /\ pc' = "traverse"
    /\ cur' = 1
    /\ UNCHANGED <<mode, input, ast, changes, run, revisit, call, log, scope,
                   globalState>>

MarkCommentNext ==
    \/ MarkDebuggerStatement
    \/ MarkCallExpression
    \/ MarkKeywords
    \/ MarkTraversed
    \/ MarkAgain

SpecMarkComment == MarkCommentInit /\ [][MarkCommentNext]_vars

\* the nodes the pass marks: a debugger statement, a call of setTimeout or
\* setInterval, a statement that holds a keyword
C18Marked(n) ==
    \/ n.type = "DebuggerStatement"
    \/ n.type = "CallExpression" /\ n.callee[2] \in {"setTimeout", "setInterval"}
    \/ \E i \in 1..Len(n.names) : toLowerCase(n.names[i]) \in keywordsOf(call.keywords)

C18Labels(n) == Cardinality({i \in 1..Len(n.leadingComments) : n.leadingComments[i] = Label})

\* the comments the node had are the last of those it has
C18Kept(before, after) ==
    /\ Len(after.leadingComments) >= Len(before.leadingComments)
    /\ SubSeq(after.leadingComments,
              Len(after.leadingComments) - Len(before.leadingComments) + 1,
              Len(after.leadingComments)) = before.leadingComments

\* C18: running markComment twice gives the same program as running it
\* once; however many times it has run, a debugger statement, a call of
\* setTimeout or setInterval and a statement that holds a keyword each
\* have exactly one comment TOLOOK, and the comments that were there
\* before the pass have their text.
C18Idempotent ==
    (mode = "markComment" /\ pc = "done") =>
        /\ Len(log) >= 2 => log[2] = log[1]
        /\ \A p \in 1..Len(ast) :
              /\ C18Marked(input[p]) => C18Labels(ast[p]) = 1
              /\ C18Kept(input[p], ast[p])

(***************************************************************************)
(* Deob.findDecryptFnByCallCount, findDecryptFnByBigArr and                *)
(* designDecryptFn (utils/ast.ts).  ast is the body of the program, a list *)
(* of statements:                                                          *)
(*   function id(params) { var inner = [elements]; uses }                  *)
(*   var id = function fname(params) { uses }    fname 0: no name          *)
(*   var id = [elements]                                                   *)
(*   var id = name           uses holds the reference to name              *)
(*   an expression statement with the references in uses.                  *)
(* A use is a reference to a name, with the key it has in its parent.      *)
(* The place of a statement in the input program is its start.  The        *)
(* inputs have no array variable of the name of a function, and no         *)
(* reference that is an argument of a call inside a function.  call is     *)
(* what the last call of a method returned, log the calls made.            *)
(***************************************************************************)
\* most statements of an input program of the decoder search
MaxProgram == 2

\* most calls of the methods of the decoder search on one program
MaxCalls == 3

\* binding.referencePaths.length < 10 in findDecryptFnByBigArr
ReferenceLimit == 10

decoderNode(type, id, init, fname, params, inner, elements, uses) ==
    [type |-> type, id |-> id, init |-> init, fname |-> fname, params |-> params,
     inner |-> inner, elements |-> elements, uses |-> uses]

use(name, parentKey) == [name |-> name, parentKey |-> parentKey]

goneNode == decoderNode("removed", 0, "none", 0, <<>>, 0, 0, <<>>)

isFunctionNode(s) ==
    \/ s.type = "FunctionDeclaration"
    \/ s.type = "VariableDeclaration" /\ s.init = "FunctionExpression"

\* parent.node.id?.name of the function of a statement; 0 for undefined
functionName(s) == IF s.type = "FunctionDeclaration" THEN s.id ELSE s.fname

\* the names bound in the scope of the function of a statement
localNames(s) ==
    IF isFunctionNode(s)
    THEN ({s.params[i] : i \in 1..Len(s.params)} \cup {s.inner}
            \cup (IF s.type = "VariableDeclaration" THEN {s.fname} ELSE {})) \ {0}
    ELSE {}

\* the references to the name from the statement at p: (p, i) for use i
usesOf(body, p, name) ==
    {<<p, i>> : i \in {j \in 1..Len(body[p].uses) : body[p].uses[j].name = name}}

\* the binding of the name that the scope of the statement at p resolves
\* it to: the place of its declaration, its referencePaths, and whether it
\* is a binding of the program; at 0 for none
getBindingFrom(body, p, name) ==
    LET declared == {q \in 1..Len(body) :
                        /\ body[q].type \in {"FunctionDeclaration", "VariableDeclaration"}
                        /\ body[q].id = name}
    IN  IF name \in localNames(body[p])
        THEN [at |-> p, referencePaths |-> usesOf(body, p, name), program |-> FALSE]
        ELSE IF declared # {}
        THEN [at |-> Min(declared),
              referencePaths |-> UNION {IF name \in localNames(body[q]) THEN {}
                                        ELSE usesOf(body, q, name) : q \in 1..Len(body)},
              program |-> TRUE]
        ELSE [at |-> 0, referencePaths |-> {}, program |-> FALSE]

\* processFunction on the statements from p on, in the order of the
\* traversal: the decoder list and index afterwards
RECURSIVE processFunctions(_, _, _, _, _)
processFunctions(body, p, count, list, index) ==
    IF p > Len(body) THEN [list |-> list, index |-> index]
    ELSE LET fnName == IF body[p].type = "VariableDeclaration" /\ body[p].fname # 0
                       THEN body[p].fname ELSE body[p].id
             binding == getBindingFrom(body, p, fnName)
         IN  IF /\ isFunctionNode(body[p])
                /\ binding.at # 0
                /\ Cardinality(binding.referencePaths) >= count
             THEN processFunctions(body, p + 1, count, Append(list, fnName), binding.at)
             ELSE processFunctions(body, p + 1, count, list, index)

\* what a method returns and leaves: the program, the decoder list, and
\* the code returned (the statements it is generated from) or undefined
returns(body, list, returned, code) ==
    [ast |-> body, list |-> list, returned |-> returned, code |-> code]

\* findDecryptFnByCallCount without its first line
findDecryptFnByCallCountUnguarded(body, list, count, isRemove) ==
    LET r == processFunctions(body, 1, count, list, 0)
    IN  returns(IF isRemove THEN SubSeq(body, r.index + 1, Len(body)) ELSE body,
                r.list, "code", SubSeq(body, 1, r.index))

findDecryptFnByCallCount(body, list, count, isRemove) ==
    IF Len(list) > 0 THEN returns(body, list, "undefined", <<>>)
    ELSE LET r == processFunctions(body, 1, count, list, 0)
         IN  returns(IF isRemove THEN SubSeq(body, r.index + 1, Len(body)) ELSE body,
                     r.list, "code", SubSeq(body, 1, r.index))

\* referencePaths in the order of the source
RECURSIVE inOrder(_)
inOrder(S) ==
    IF S = {} THEN <<>>
    ELSE LET first == CHOOSE r \in S :
                          \A o \in S : r[1] < o[1] \/ (r[1] = o[1] /\ r[2] <= o[2])
         IN  <<first>> \o inOrder(S \ {first})

\* the function node of a statement, as it is pushed to the code
functionNodeOf(s) ==
    IF s.type = "FunctionDeclaration" THEN s ELSE [s EXCEPT !.type = "FunctionExpression"]

\* parent.remove() of the function of the statement: a declaration goes, a
\* function expression leaves  var id;
removeFunction(s) ==
    IF s.type = "FunctionDeclaration" THEN goneNode
    ELSE [s EXCEPT !.init = "none", !.fname = 0, !.params = <<>>, !.inner = 0,
                   !.elements = 0, !.uses = <<>>]

\* binding.referencePaths.forEach of findDecryptFnByBigArr, from reference
\* k on; key is the parentKey that leads to a decoder ('object' for the
\* array, 'callee' for the function that holds it), fnName the name that
\* is not pushed (0 for none).  orig is the program the traversal began
\* with, st the program, decoder list and code so far.
RECURSIVE forEachReference(_, _, _, _, _, _, _)
forEachReference(orig, refs, k, key, fnName, isRemove, st) ==
    IF k > Len(refs) THEN st
    ELSE LET q == refs[k][1]
             r == orig[q].uses[refs[k][2]]
             decryptFnName == functionName(orig[q])
             next ==
                 IF r.parentKey = key /\ isFunctionNode(orig[q])
                 THEN [ast |-> IF isRemove
                               THEN [st.ast EXCEPT ![q] = removeFunction(@)]
                               ELSE st.ast,
                       list |-> IF decryptFnName # 0 /\ decryptFnName # fnName
                                THEN Append(st.list, decryptFnName) ELSE st.list,
                       code |-> Append(st.code, functionNodeOf(orig[q]))]
                 ELSE IF /\ r.parentKey # key /\ r.parentKey = "arguments"
                         /\ orig[q].type = "ExpressionStatement"
                 THEN [ast |-> IF isRemove THEN [st.ast EXCEPT ![q] = goneNode]
                               ELSE st.ast,
                       list |-> st.list,
                       code |-> Append(st.code, orig[q])]
                 ELSE st
         IN  forEachReference(orig, refs, k + 1, key, fnName, isRemove, next)

\* the ArrayExpression visitor on the statements from p on
RECURSIVE arrayExpressions(_, _, _, _, _)
arrayExpressions(orig, p, count, isRemove, st) ==
    IF p > Len(orig) THEN st
    ELSE LET s == st.ast[p]
             big == s.elements >= count
             binding == getBindingFrom(orig, p, s.id)
             next ==
                 IF /\ s.type = "VariableDeclaration" /\ s.init = "ArrayExpression" /\ big
                    /\ Cardinality(binding.referencePaths) < ReferenceLimit
                 THEN LET r == forEachReference(orig, inOrder(binding.referencePaths), 1,
                                                "object", 0, isRemove,
                                                [st EXCEPT !.code = Append(@, orig[p])])
                      IN  IF isRemove THEN [r EXCEPT !.ast[p] = goneNode] ELSE r
                 ELSE IF /\ s.type = "FunctionDeclaration" /\ s.inner # 0 /\ big
                         /\ Cardinality(usesOf(orig, p, s.inner)) < ReferenceLimit
                 THEN forEachReference(orig, inOrder(binding.referencePaths), 1,
                                       "callee", s.id, isRemove, st)
                 ELSE st
         IN  arrayExpressions(orig, p + 1, count, isRemove, next)

\* the program without the statements that were removed
withoutGone(body) == SelectSeq(body, LAMBDA s : s.type # "removed")

findDecryptFnByBigArr(body, list, count, isRemove) ==
    IF Len(list) > 0 THEN returns(body, list, "undefined", <<>>)
    ELSE LET r == arrayExpressions(body, 1, count, isRemove,
                                   [ast |-> body, list |-> list, code |-> <<>>])
         IN  returns(withoutGone(r.ast), r.list, "code", r.code)

\* path.scope.rename(id.name, decryptFn): the references to the name in the
\* scope of the program take the name of the decoder
renameUses(s, old, new) ==
    IF old \in localNames(s) THEN s
    ELSE [s EXCEPT !.uses = [i \in 1..Len(s.uses) |->
                                IF s.uses[i].name = old
                                THEN use(new, s.uses[i].parentKey) ELSE s.uses[i]]]

\* the VariableDeclarator visitor of designDecryptFn on the statements from
\* p on:  var id = decoder  is removed and id renamed
RECURSIVE renameToDecoder(_, _, _)
renameToDecoder(body, p, list) ==
    IF p > Len(body) THEN body
    ELSE IF /\ body[p].type = "VariableDeclaration" /\ body[p].init = "Identifier"
            /\ \E i \in 1..Len(list) : list[i] = body[p].uses[1].name
    THEN renameToDecoder(
             [q \in 1..Len(body) |->
                 IF q = p THEN goneNode
                 ELSE renameUses(body[q], body[p].id, body[p].uses[1].name)],
             p + 1, list)
    ELSE renameToDecoder(body, p + 1, list)

\* designDecryptFn(decryptFnList); the empty list stands for no argument
designDecryptFn(body, list, decryptFnList) ==
    LET given == IF decryptFnList # <<>> THEN decryptFnList ELSE list
    IN  returns(withoutGone(renameToDecoder(body, 1, given)), given, "undefined", <<>>)

\* ---- the inputs --------------------------------------------------------
\* the names: 1 a function f, 2 a variable v, 3 an array arr of the
\* program, 4 a function g that holds the array 5
DecoderStatements ==
    {decoderNode("FunctionDeclaration", 1, "none", 0, params, 0, 0, <<>>) :
        params \in {<<>>, <<1>>}}
    \cup {decoderNode("FunctionDeclaration", 1, "none", 0, <<>>, 0, 0, <<use(3, "object")>>),
          decoderNode("FunctionDeclaration", 1, "none", 0, <<>>, 0, 0, <<use(4, "callee")>>),
          decoderNode("FunctionDeclaration", 4, "none", 0, <<>>, 5, 2, <<use(5, "object")>>),
          decoderNode("VariableDeclaration", 2, "FunctionExpression", 0, <<>>, 0, 0, <<>>),
          decoderNode("VariableDeclaration", 2, "FunctionExpression", 1, <<>>, 0, 0, <<>>),
          decoderNode("VariableDeclaration", 3, "ArrayExpression", 0, <<>>, 0, 2, <<>>),
          decoderNode("VariableDeclaration", 2, "Identifier", 0, <<>>, 0, 0,
                      <<use(1, "init")>>)}
    \cup {decoderNode("ExpressionStatement", 0, "none", 0, <<>>, 0, 0, uses) :
             uses \in {<<use(1, "callee")>>, <<use(1, "callee"), use(1, "callee")>>,
                       <<use(2, "callee")>>, <<use(3, "arguments")>>}}

DecoderPrograms == UNION {[1..n -> DecoderStatements] : n \in 1..MaxProgram}

DecoderCounts == {1, 2}

DecodersInit ==
    /\ mode = "decoders"
    /\ input \in DecoderPrograms
    /\ ast = input
    /\ cur = 1
    /\ changes = 0
    /\ run = 0
    /\ revisit = FALSE
    /\ call = [returned |-> "none", code |-> <<>>]
    /\ pc = "idle"
    /\ log = <<>>
    /\ scope = [uids |-> {}]
    /\ globalState = EmptyState

\* a method has been called and has returned r
Returned(r, fn, count, isRemove) ==
    /\ Len(log) < MaxCalls
    /\ ast' = r.ast
    /\ globalState' = [globalState EXCEPT !.decryptFnList = r.list]
    /\ call' = [returned |-> r.returned, code |-> r.code]
    /\ log' = Append(log, [fn |-> fn, count |-> count, isRemove |-> isRemove,
                           list |-> globalState.decryptFnList])
    /\ UNCHANGED <<mode, input, cur, changes, run, revisit, pc, scope>>

FindDecryptFnByCallCount ==
    \E count \in DecoderCounts, isRemove \in BOOLEAN :
        /\ mode = "decoders"
        /\ Returned(findDecryptFnByCallCount(ast, globalState.decryptFnList, count, isRemove),
                    "findDecryptFnByCallCount", count, isRemove)

FindDecryptFnByBigArr ==
    \E count \in DecoderCounts, isRemove \in BOOLEAN :
        /\ mode = "decoders"
        /\ Returned(findDecryptFnByBigArr(ast, globalState.decryptFnList, count, isRemove),
                    "findDecryptFnByBigArr", count, isRemove)

DesignDecryptFn ==
    \E decryptFnList \in {<<>>, <<1>>} :
        /\ mode = "decoders"
        /\ Returned(designDecryptFn(ast, globalState.decryptFnList, decryptFnList),
                    "designDecryptFn", 0, FALSE)

DecodersNext ==
    \/ FindDecryptFnByCallCount
    \/ FindDecryptFnByBigArr
    \/ DesignDecryptFn

SpecDecoders == DecodersInit /\ [][DecodersNext]_vars

\* the references to the binding the program has of the name
C19References(name) ==
    UNION {IF name \in localNames(input[q]) THEN {} ELSE usesOf(input, q, name) :
              q \in 1..Len(input)}

\* the functions of the program whose binding has at least count
\* references
C19Qualifying(count) ==
    {p \in 1..Len(input) :
        /\ isFunctionNode(input[p])
        /\ Cardinality(C19References(input[p].id)) >= count}

\* C19: when findDecryptFnByCallCount(count) has run on a program with no
\* decoder yet, a function declaration of the program, or a function
\* expression that initialises a variable of the program, is in the
\* decoder list iff its binding has at least count references, and the
\* code returned is the program up to and including the declaration of
\* the last such function, empty when there is none.
C19CallCount ==
    (mode = "decoders" /\ Len(log) = 1 /\ log[1].fn = "findDecryptFnByCallCount") =>
        LET Q == C19Qualifying(log[1].count)
        IN  /\ {globalState.decryptFnList[i] : i \in 1..Len(globalState.decryptFnList)}
                 = {input[p].id : p \in Q}
            /\ call.code = IF Q = {} THEN <<>> ELSE SubSeq(input, 1, Max(Q))

C20Finds == {"findDecryptFnByCallCount", "findDecryptFnByBigArr"}

C20Step ==
    (/\ mode = "decoders"
     /\ globalState.decryptFnList # <<>>
     /\ Len(log') = Len(log) + 1
     /\ log'[Len(log')].fn \in C20Finds)
        => (globalState' = globalState /\ ast' = ast)

\* C20: once the decoder list is not empty, a call of
\* findDecryptFnByCallCount or findDecryptFnByBigArr, whichever and however
\* many, returns with the decoder list and the program as they were, also
\* when isRemove is true.
C20Guarded == [][C20Step]_vars

\* both searches were called with isRemove on a program that had decoders
C20Witness ==
    /\ mode = "decoders"
    /\ Len(log) = MaxCalls
    /\ \A i \in 2..Len(log) : log[i].fn \in C20Finds /\ log[i].list # <<>>
    /\ \E i, j \in 2..Len(log) : log[i].fn # log[j].fn /\ log[i].isRemove /\ log[j].isRemove

(***************************************************************************)
(* The sandboxed executor: class VMDecoder.  Code is a sequence of tokens; *)
(* the token ";" stands for the separator ';\n' of the setup code and ","  *)
(* for the separator of the calls.  A call of the batch is a record        *)
(* [callee, arguments]: the number of the decoder called and the numbers   *)
(* passed.  input holds what the decoder was constructed with and the      *)
(* batch, ast the call sites of the batch, call the sandbox and what it    *)
(* was given, pc where decode stands:                                      *)
(*   "idle"      decode has not been called                                *)
(*   "awaiting"  decode is suspended at  await this.sandbox(code)          *)
(*   "settled"   the promise of the sandbox is settled, decode has not     *)
(*               resumed yet                                               *)
(*   "returned"  the promise of decode is resolved with the result         *)
(*   "rejected"  the promise of decode is rejected                         *)
(*   "done"      the driver has replaced the call sites of the batch       *)
(*   "fatal"     the driver has reported the failure                       *)
(***************************************************************************)
\* most calls in a batch
MaxBatch == 2

\* most decoder functions
MaxDecoders == 2

\* the decoded strings: the elements of the string array
Strings == <<"s0", "s1">>

NumberTokens == <<"0", "1">>

decoderCall(callee, arguments) == [callee |-> callee, arguments |-> arguments]

DecoderTokens == <<"function D1(){}", "function D2(){}">>

StringArrayToken == "var A=[]"

RotatorToken == "(function(){})(A)"

\* generate(node, generateOptions) of the parts of the setup code
generateDecoder(decoder) == <<DecoderTokens[decoder]>>

\* NodePath.toString() of a call: the callee, the arguments between
\* parentheses, separated by commas
generateCall(c) ==
    <<DecoderTokens[c.callee], "(">>
    \o join([i \in 1..Len(c.arguments) |-> <<NumberTokens[c.arguments[i] + 1]>>], ",")
    \o <<")">>

\* a slip: the rotator is put before the string array
setupCodeRotatorFirst(rotator, decoders) ==
    LET stringArrayCode == <<StringArrayToken>>
        rotatorCode == IF rotator THEN <<RotatorToken>> ELSE <<>>
        decoderCode == join([i \in 1..Len(decoders) |-> generateDecoder(decoders[i])], ";")
    IN  join(<<rotatorCode, stringArrayCode, decoderCode>>, ";")

\* the constructor: this.setupCode
setupCode(rotator, decoders) ==
    LET stringArrayCode == <<StringArrayToken>>
        rotatorCode == IF rotator THEN <<RotatorToken>> ELSE <<>>
        decoderCode == join([i \in 1..Len(decoders) |-> generateDecoder(decoders[i])], ";")
    IN  join(<<stringArrayCode, rotatorCode, decoderCode>>, ";")

\* decode: the program handed to the sandbox
decodeCode(setup, calls) ==
    <<"(() => {">> \o setup \o <<"return [">>
    \o join([i \in 1..Len(calls) |-> generateCall(calls[i])], ",")
    \o <<"]", "})()">>

(***************************************************************************)
(* What a sandbox that evaluates JavaScript makes of the program: it       *)
(* parses the statements of the arrow function and the elements of the     *)
(* array returned, runs the statements in order and evaluates the          *)
(* elements.  The rotator throws when the string array is not defined      *)
(* yet, a call throws when its decoder is not defined.                     *)
(***************************************************************************)
indexOf(code, token) == Min({i \in 1..Len(code) : code[i] = token})

\* the statements of the program, empty statements left out
statementsOf(code) ==
    LET setup == SubSeq(code, 2, indexOf(code, "return [") - 1)
    IN  SelectSeq(setup, LAMBDA token : token # ";")

\* the elements of a list: the commas between parentheses do not separate
RECURSIVE elementsFrom(_, _, _)
elementsFrom(tokens, depth, element) ==
    IF tokens = <<>> THEN (IF element = <<>> THEN <<>> ELSE <<element>>)
    ELSE LET token == Head(tokens)
         IN  IF token = "," /\ depth = 0
             THEN <<element>> \o elementsFrom(Tail(tokens), 0, <<>>)
             ELSE elementsFrom(Tail(tokens),
                               IF token = "(" THEN depth + 1
                               ELSE IF token = ")" THEN depth - 1 ELSE depth,
                               Append(element, token))

\* the elements of the array the program returns
returnedOf(code) ==
    LET from == indexOf(code, "return [")
    IN  elementsFrom(SubSeq(code, from + 1, Len(code) - 2), 0, <<>>)

\* the call an element of the array is
parseCall(element) ==
    LET numbers == elementsFrom(SubSeq(element, 3, Len(element) - 1), 0, <<>>)
    IN  decoderCall(CHOOSE d \in 1..Len(DecoderTokens) : DecoderTokens[d] = element[1],
                    [i \in 1..Len(numbers) |->
                        (CHOOSE n \in 1..Len(NumberTokens) : NumberTokens[n] = numbers[i][1]) - 1])

NoEnvironment == [array |-> <<>>, decoders |-> {}, thrown |-> FALSE]

\* the string array as the rotator leaves it
rotate(array) == Tail(array) \o <<Head(array)>>

RECURSIVE runStatements(_, _)
runStatements(statements, env) ==
    IF statements = <<>> \/ env.thrown THEN env
    ELSE LET token == Head(statements)
             next ==
                 IF token = StringArrayToken THEN [env EXCEPT !.array = Strings]
                 ELSE IF token = RotatorToken
                 THEN (IF env.array = <<>> THEN [env EXCEPT !.thrown = TRUE]
                       ELSE [env EXCEPT !.array = rotate(@)])
                 ELSE [env EXCEPT !.decoders =
                          @ \cup {d \in 1..Len(DecoderTokens) : DecoderTokens[d] = token}]
         IN  runStatements(Tail(statements), next)

\* decoder d called with index i on the array
decoded(array, c) ==
    array[((c.arguments[1] + c.callee - 1) % Len(array)) + 1]

\* the outcome of the evaluation: thrown, or the value of the program
sandboxEvaluate(code) ==
    LET env == runStatements(statementsOf(code), NoEnvironment)
        elements == returnedOf(code)
        calls == [i \in 1..Len(elements) |-> parseCall(elements[i])]
        defined == \A i \in 1..Len(calls) : calls[i].callee \in env.decoders
    IN  IF env.thrown \/ ~defined \/ (calls # <<>> /\ env.array = <<>>)
        THEN [thrown |-> TRUE, value |-> <<>>]
        ELSE [thrown |-> FALSE,
              value |-> [i \in 1..Len(calls) |-> decoded(env.array, calls[i])]]

\* a slip: decode goes on without the promise of the sandbox
resumesUnsettled(promise) == TRUE

\* await: decode resumes when the promise of the sandbox is settled
resumes(promise) == promise # "pending"

Sandboxes == {"createNodeSandbox", "createBrowserSandbox", "evaluator"}

BatchCalls ==
    {decoderCall(callee, arguments) :
        callee \in 1..Len(DecoderTokens),
        arguments \in {<<0>>, <<1>>, <<0, 1>>, <<1, 1>>}}

VMDecoderInputs ==
    [sandbox : Sandboxes,
     rotator : BOOLEAN,
     decoders : {ds \in UNION {[1..n -> 1..Len(DecoderTokens)] : n \in 0..MaxDecoders} :
                    \A i, j \in 1..Len(ds) : ds[i] = ds[j] => i = j},
     calls : UNION {[1..n -> BatchCalls] : n \in 0..MaxBatch}]

callSite(c) == [type |-> "CallExpression", call |-> c, value |-> ""]

stringSite(c, value) == [type |-> "StringLiteral", call |-> c, value |-> value]

VMDecoderInit ==
    /\ mode = "vmDecoder"
    /\ input \in VMDecoderInputs
    /\ ast = [i \in 1..Len(input.calls) |-> callSite(input.calls[i])]
    /\ cur = 1
    /\ changes = 0
    /\ run = 0
    /\ revisit = FALSE
    /\ call = [submitted |-> <<>>, promise |-> "none", value |-> <<>>,
               result |-> <<>>, error |-> "none"]
    /\ pc = "idle"
    /\ log = <<>>
    /\ scope = [uids |-> {}]
    /\ globalState = EmptyState

\* decode(calls) up to the await: the code is built and the sandbox called.
\* The sandboxes of createNodeSandbox and createBrowserSandbox throw; the
\* async function turns that into the rejection of its promise.
VMDecode ==
    /\ mode = "vmDecoder" /\ pc = "idle"
    /\ LET code == decodeCode(setupCode(input.rotator, input.decoders), input.calls)
       IN  IF input.sandbox = "evaluator"
           THEN /\ call' = [call EXCEPT !.submitted = Append(@, code), !.promise = "pending"]
                /\ pc' = "awaiting"
           ELSE /\ call' = [call EXCEPT !.submitted = Append(@, code),
                                        !.error = "Custom Sandbox implementation required."]
                /\ pc' = "rejected"
    /\ UNCHANGED <<mode, input, ast, cur, changes, run, revisit, log, scope, globalState>>

\* the sandbox has evaluated the program
SandboxSettles ==
    /\ mode = "vmDecoder" /\ call.promise = "pending"
    /\ LET r == sandboxEvaluate(call.submitted[Len(call.submitted)])
       IN  call' = IF r.thrown
                   THEN [call EXCEPT !.promise = "rejected", !.error = "thrown"]
                   ELSE [call EXCEPT !.promise = "resolved", !.value = r.value]
    /\ pc' = IF pc = "awaiting" THEN "settled" ELSE pc
    /\ UNCHANGED <<mode, input, ast, cur, changes, run, revisit, log, scope, globalState>>

\* the sandbox gives up (timeout, cancellation)
SandboxRejects ==
    /\ mode = "vmDecoder" /\ call.promise = "pending"
    /\ call' = [call EXCEPT !.promise = "rejected", !.error = "timeout"]
    /\ pc' = IF pc = "awaiting" THEN "settled" ELSE pc
    /\ UNCHANGED <<mode, input, ast, cur, changes, run, revisit, log, scope, globalState>>

\* decode after the await:  return result as unknown[]
VMDecodeResumes ==
    /\ mode = "vmDecoder" /\ pc \in {"awaiting", "settled"}
    /\ resumes(call.promise)
    /\ IF call.promise = "rejected"
       THEN /\ pc' = "rejected"
            /\ call' = call
       ELSE /\ pc' = "returned"
            /\ call' = [call EXCEPT !.result = call.value]
    /\ UNCHANGED <<mode, input, ast, cur, changes, run, revisit, log, scope, globalState>>

\* the driver, after  await decode(calls): the next call site is replaced
\* by the string literal of its result
DriverReplaces ==
    /\ mode = "vmDecoder" /\ pc = "returned"
    /\ cur <= Len(ast)
    /\ ast' = [ast EXCEPT ![cur] =
                  stringSite(@.call, IF cur <= Len(call.result) THEN call.result[cur]
                                     ELSE "undefined")]
    /\ cur' = cur + 1
    /\ changes' = changes + 1
    /\ UNCHANGED <<mode, input, run, revisit, call, pc, log, scope, globalState>>

DriverDone ==
    /\ mode = "vmDecoder" /\ pc = "returned"
    /\ cur > Len(ast)
    /\ pc' = "done"
    /\ UNCHANGED <<mode, input, ast, cur, changes, run, revisit, call, log, scope,
                   globalState>>

\* the driver, when decode has rejected: a fatal error, no edit
DriverFails ==
    /\ mode = "vmDecoder" /\ pc = "rejected"
    /\ pc' = "fatal"
    /\ log' = Append(log, call.error)
    /\ UNCHANGED <<mode, input, ast, cur, changes, run, revisit, call, scope, globalState>>

VMDecoderNext ==
    \/ VMDecode
    \/ SandboxSettles
    \/ SandboxRejects
    \/ VMDecodeResumes
    \/ DriverReplaces
    \/ DriverDone
    \/ DriverFails

SpecVMDecoder == VMDecoderInit /\ [][VMDecoderNext]_vars

\* the setup statements in the order the claim names
C21Setup ==
    <<StringArrayToken>> \o (IF input.rotator THEN <<RotatorToken>> ELSE <<>>)
    \o [i \in 1..Len(input.decoders) |-> DecoderTokens[input.decoders[i]]]

\* the string call c gives once the setup has run
C21Value(c) ==
    Strings[((c.arguments[1] + c.callee - 1 + (IF input.rotator THEN 1 ELSE 0)) % 2) + 1]

\* C21: decode hands exactly one program to the sandbox; its statements
\* are the string array, the rotator when there is one, then the decoders
\* in list order, all before the return; it returns the array of the
\* calls of the batch in their order; so the result decode returns has as
\* many elements as the batch and the i-th is the value of the i-th call.
C21OneProgram ==
    (mode = "vmDecoder" /\ pc # "idle") =>
        /\ Len(call.submitted) = 1
        /\ statementsOf(call.submitted[1]) = C21Setup
        /\ LET elements == returnedOf(call.submitted[1])
           IN  /\ Len(elements) = Len(input.calls)
               /\ \A i \in 1..Len(elements) : parseCall(elements[i]) = input.calls[i]
        /\ pc \in {"returned", "done"} =>
              /\ Len(call.result) = Len(input.calls)
              /\ \A i \in 1..Len(input.calls) : call.result[i] = C21Value(input.calls[i])

\* a batch of two different calls to two decoders, with a rotator, decoded
C21Witness ==
    /\ mode = "vmDecoder" /\ pc = "returned"
    /\ input.rotator /\ Len(input.decoders) = 2
    /\ Len(input.calls) = 2
    /\ input.calls[1].callee # input.calls[2].callee
    /\ Len(input.calls[1].arguments) = 2
    /\ call.result[1] # call.result[2]

\* C22: no call site of the batch is replaced unless the promise of the
\* sandbox has resolved and decode has returned its value; when the
\* sandbox throws or rejects, decode rejects with a result list never
\* made and every call site is as it was; the sandboxes of
\* createNodeSandbox and createBrowserSandbox never leave decode anything
\* but rejected.
C22Awaited ==
    mode = "vmDecoder" =>
        /\ ast # [i \in 1..Len(input.calls) |-> callSite(input.calls[i])]
              => call.promise = "resolved" /\ pc \in {"returned", "done"}
        /\ pc \in {"returned", "done"} => call.promise = "resolved" /\ call.result = call.value
        /\ call.promise = "rejected" => pc \in {"awaiting", "settled", "rejected", "fatal"}
        /\ pc \in {"rejected", "fatal"} =>
              /\ call.result = <<>>
              /\ call.error # "none"
              /\ ast = [i \in 1..Len(input.calls) |-> callSite(input.calls[i])]
        /\ (input.sandbox # "evaluator" /\ pc # "idle") => pc \in {"rejected", "fatal"}

\* the sandbox was given a batch and rejected while decode was awaiting it;
\* the driver has reported the failure
C22Witness ==
    /\ mode = "vmDecoder" /\ pc = "fatal"
    /\ input.sandbox = "evaluator" /\ call.promise = "rejected"
    /\ Len(ast) = MaxBatch

(***************************************************************************)
(* decryptReplace.  The program is the list of its call sites; a site is   *)
(* a call with its callee (the name is 0 when the callee is not an         *)
(* identifier: callee.name is undefined), its arguments and its leading    *)
(* comments, or the string literal that replaced it.  Names are numbers:   *)
(* 1 and 2 are functions of the decoder list, 3 is a variable, 4 a         *)
(* function that is no decoder.  call.env is what eval finds: the names    *)
(* that are defined and the indices at which a decoder throws; call.code   *)
(* tells what the decryptFnCode passed does; log lists the sites that      *)
(* were given to eval.                                                     *)
(***************************************************************************)
\* most call sites in a program
MaxSites == 2

decryptSite(calleeType, name, arguments, leadingComments) ==
    [type |-> "CallExpression", calleeType |-> calleeType, name |-> name,
     arguments |-> arguments, leadingComments |-> leadingComments,
     value |-> [d |-> 0, n |-> 0]]

\* t.stringLiteral(decStr) in the place of the call
decryptedSite(decStr) ==
    [type |-> "StringLiteral", calleeType |-> "none", name |-> 0,
     arguments |-> <<>>, leadingComments |-> <<>>, value |-> decStr]

completion(thrown, message, value) ==
    [thrown |-> thrown, message |-> message, value |-> value]

\* the value of an argument; a variable and a function that are defined
\* give 0, a name that is not defined throws a ReferenceError
RECURSIVE evalArgument(_, _)
evalArgument(e, env) ==
    CASE e.t = "NumericLiteral" -> completion(FALSE, "", e.v)
      [] e.t = "Identifier" ->
            IF e.v \in env.defined THEN completion(FALSE, "", 0)
            ELSE completion(TRUE, "is not defined", 0)
      [] e.t = "CallExpression" -> evalArgument(e.es[1], env)
      [] e.t = "BinaryExpression" ->
            LET l == evalArgument(e.es[1], env)
                r == evalArgument(e.es[2], env)
            IN  IF l.thrown THEN l
                ELSE IF r.thrown THEN r
                ELSE completion(FALSE, "", l.value + r.value)

\* eval(callCode): the arguments are evaluated, then the decoder is called
\* with them; the string decoded is named by the decoder and the index
evalCall(site, env) ==
    LET first == evalArgument(site.arguments[1], env)
        others == {i \in 2..Len(site.arguments) :
                      evalArgument(site.arguments[i], env).thrown}
    IN  IF site.name \notin env.defined
        THEN completion(TRUE, "is not defined", [d |-> 0, n |-> 0])
        ELSE IF first.thrown THEN completion(TRUE, first.message, [d |-> 0, n |-> 0])
        ELSE IF others # {}
        THEN completion(TRUE, evalArgument(site.arguments[Min(others)], env).message,
                        [d |-> 0, n |-> 0])
        ELSE IF first.value \in env.failing
        THEN completion(TRUE, "cannot decode", [d |-> 0, n |-> 0])
        ELSE completion(FALSE, "", [d |-> site.name, n |-> first.value])

visited(site, evaluated, thrown) ==
    [site |-> site, evaluated |-> evaluated, thrown |-> thrown]

\* a slip: the visitor reads throwWithEval of the instance and it is set
decryptCallThrowing(site, decryptFnList, env) ==
    IF site.type # "CallExpression" THEN visited(site, FALSE, FALSE)
    ELSE IF \A i \in 1..Len(decryptFnList) : decryptFnList[i] # site.name
    THEN visited(site, FALSE, FALSE)
    ELSE IF site.calleeType # "Identifier" THEN visited(site, FALSE, FALSE)
    ELSE IF \E i \in 1..Len(site.arguments) : isIdentifier(site.arguments[i])
    THEN visited(site, FALSE, FALSE)
    ELSE LET r == evalCall(site, env)
         IN  IF r.thrown
             THEN visited(addComment(site, <<"decrypt failed", r.message>>), TRUE, TRUE)
             ELSE visited(decryptedSite(r.value), TRUE, FALSE)

\* the CallExpression visitor.  this is not the Deob instance in the
\* visitor (the traversal is started without a state), so
\* this?.throwWithEval is undefined and the error is never thrown on.
decryptCall(site, decryptFnList, env) ==
    IF site.type # "CallExpression" THEN visited(site, FALSE, FALSE)
    ELSE IF \A i \in 1..Len(decryptFnList) : decryptFnList[i] # site.name
    THEN visited(site, FALSE, FALSE)
    ELSE IF site.calleeType # "Identifier" THEN visited(site, FALSE, FALSE)
    ELSE IF \E i \in 1..Len(site.arguments) : isIdentifier(site.arguments[i])
    THEN visited(site, FALSE, FALSE)
    ELSE LET r == evalCall(site, env)
         IN  IF r.thrown
             THEN visited(addComment(site, <<"decrypt failed", r.message>>), TRUE, FALSE)
             ELSE visited(decryptedSite(r.value), TRUE, FALSE)

\* ---- the inputs --------------------------------------------------------
DecryptArguments ==
    {NumericLiteral(0), NumericLiteral(1), Id(3),
     binaryExpression("+", Id(3), NumericLiteral(1)),
     callExpression(Id(4), <<>>)}

DecryptSites ==
    {decryptSite("Identifier", 1, <<a>>, <<>>) : a \in DecryptArguments}
    \cup {decryptSite("Identifier", 2, <<a>>, <<>>) :
             a \in {NumericLiteral(0), binaryExpression("+", Id(3), NumericLiteral(1))}}
    \cup {decryptSite("Identifier", 4, <<NumericLiteral(0)>>, <<>>)}
    \cup {decryptSite("Identifier", 1, <<a>>, <<<<"note", "">>>>) :
             a \in {NumericLiteral(0), NumericLiteral(1)}}
    \cup {decryptSite("Identifier", 1, <<NumericLiteral(0), b>>, <<>>) :
             b \in {NumericLiteral(0), Id(3)}}
    \cup {decryptSite("MemberExpression", 0, <<NumericLiteral(0)>>, <<>>)}

DecryptPrograms == UNION {[1..n -> DecryptSites] : n \in 1..MaxSites}

DecryptEnvironments ==
    [defined : {{1}, {1, 2}, {1, 2, 3, 4}}, failing : {{}, {1}}]

DecryptReplaceInit ==
    /\ mode = "decryptReplace"
    /\ input \in DecryptPrograms
    /\ ast = input
    /\ cur = 1
    /\ changes = 0
    /\ run = 0
    /\ revisit = FALSE
    /\ call \in [env : DecryptEnvironments, code : {"null", "runs"}]
    /\ pc = "idle"
    /\ log = <<>>
    /\ scope = [uids |-> {}]
    /\ globalState \in {[EmptyState EXCEPT !.decryptFnList = l] : l \in {<<>>, <<1>>, <<1, 2>>}}

\* decryptReplace(decryptFnCode) up to the traversal: it returns when the
\* decoder list is empty, else the code passed is run by global.eval
DecryptReplace ==
    /\ mode = "decryptReplace" /\ pc = "idle"
    /\ pc' = IF Len(globalState.decryptFnList) = 0 THEN "done" ELSE "traverse"
    /\ UNCHANGED <<mode, input, ast, cur, changes, run, revisit, call, log, scope,
                   globalState>>

\* global.eval(decryptFnCode) throws: decryptReplace throws
DecryptEvalThrows ==
    /\ mode = "decryptReplace" /\ pc = "idle"
    /\ Len(globalState.decryptFnList) # 0
    /\ call.code = "runs"
    /\ pc' = "thrown"
    /\ UNCHANGED <<mode, input, ast, cur, changes, run, revisit, call, log, scope,
                   globalState>>

DecryptCallExpression ==
    /\ mode = "decryptReplace" /\ pc = "traverse"
    /\ cur <= Len(ast)
    /\ LET r == decryptCall(ast[cur], globalState.decryptFnList, call.env)
       IN  /\ ast' = [ast EXCEPT ![cur] = r.site]
           /\ log' = IF r.evaluated THEN Append(log, cur) ELSE log
           /\ pc' = IF r.thrown THEN "thrown" ELSE pc
    /\ cur' = cur + 1
    /\ UNCHANGED <<mode, input, changes, run, revisit, call, scope, globalState>>

\* the traversal is over: this.reParse(), the program read again is the
\* program written
DecryptTraversed ==
    /\ mode = "decryptReplace" /\ pc = "traverse"
    /\ cur > Len(ast)
    /\ pc' = "done"
    /\ run' = run + 1
    /\ UNCHANGED <<mode, input, ast, cur, changes, revisit, call, log, scope,
                   globalState>>

DecryptReplaceNext ==
    \/ DecryptReplace
    \/ DecryptEvalThrows
    \/ DecryptCallExpression
    \/ DecryptTraversed

SpecDecryptReplace == DecryptReplaceInit /\ [][DecryptReplaceNext]_vars

\* the site calls a function of the decoder list by its name
C23DecoderCall(site) ==
    /\ site.calleeType = "Identifier"
    /\ \E i \in 1..Len(globalState.decryptFnList) : globalState.decryptFnList[i] = site.name

C23Constant(site) == \A i \in 1..Len(site.arguments) : isLiteral(site.arguments[i])

C28NotConstant(site) == \E i \in 1..Len(site.arguments) : ~isLiteral(site.arguments[i])

\* C28: a call of a decoder is given to eval and replaced only when all
\* its arguments are constants; a call with an argument that is or holds
\* an identifier or a call, and a call whose callee is not the name of a
\* decoder of the list, is never evaluated and is left as it was, without
\* a comment.
C28OnlyConstant ==
    mode = "decryptReplace" =>
        \A i \in 1..Len(input) :
            (C28NotConstant(input[i]) \/ ~C23DecoderCall(input[i])) =>
                /\ ast[i] = input[i]
                /\ \A k \in 1..Len(log) : log[k] # i

(***************************************************************************)
(* transformForLoop on for statements with any init.  An expression of     *)
(* the init is an assignment (to an identifier, or to a member of an       *)
(* object: left.name is then undefined, written 0) or another expression;  *)
(* right numbers the expression assigned.  A statement of the loop body is *)
(* a declaration with its declarators (init 0: no initialiser) or another  *)
(* statement.                                                              *)
(***************************************************************************)
\* most expressions in the init of a for
MaxInit == 3

\* most statements in the body of a for
MaxLoopBody == 2

forExpression(type, leftType, name, right) ==
    [type |-> type, leftType |-> leftType, name |-> name, right |-> right]

forDeclarator(id, init) == [id |-> id, init |-> init]

forNode(type, initType, expressions, body, declarations) ==
    [type |-> type, initType |-> initType, expressions |-> expressions,
     body |-> body, declarations |-> declarations]

forDeclaration(declarations) ==
    forNode("VariableDeclaration", "none", <<>>, <<>>, declarations)

\* expressions.forEach: the names pushed to toRemoveVariableDeclarators
toRemoveVariableDeclarators(expressions) ==
    {expressions[i].name : i \in {j \in 1..Len(expressions) :
                                     expressions[j].type = "AssignmentExpression"}}

\* expressions.forEach: the declarations made
declarationsOf(expressions) ==
    LET made == SelectSeq(expressions,
                          LAMBDA e : e.type = "AssignmentExpression"
                                        /\ e.leftType = "Identifier")
    IN  [i \in 1..Len(made) |-> forDeclaration(<<forDeclarator(made[i].name, made[i].right)>>)]

\* path.node.init.expressions.filter(...)
filterExpressions(expressions, toRemove) ==
    SelectSeq(expressions,
              LAMBDA e : IF e.type = "AssignmentExpression"
                         THEN e.name \notin toRemove ELSE TRUE)

\* path.traverse({VariableDeclarator}): the declarators without init whose
\* name was pushed are removed; a declaration goes with its last declarator
RECURSIVE removeDeclarators(_, _)
removeDeclarators(body, toRemove) ==
    IF body = <<>> THEN <<>>
    ELSE LET s == Head(body)
             kept == SelectSeq(s.declarations,
                               LAMBDA d : ~(d.init = 0 /\ d.id \in toRemove))
             rest == removeDeclarators(Tail(body), toRemove)
         IN  IF s.type # "VariableDeclaration" THEN <<s>> \o rest
             ELSE IF kept = <<>> THEN rest
             ELSE <<[s EXCEPT !.declarations = kept]>> \o rest

\* the ForStatement visitor: the statements the for statement becomes
forStatementVisit(s) ==
    IF s.type = "ForStatement" /\ s.initType = "SequenceExpression"
    THEN LET toRemove == toRemoveVariableDeclarators(s.expressions)
         IN  declarationsOf(s.expressions)
             \o <<[s EXCEPT !.expressions = filterExpressions(@, toRemove),
                            !.body = removeDeclarators(@, toRemove)]>>
    ELSE <<s>>

\* ---- the inputs --------------------------------------------------------
\* a = e11, b = e12, o.p = e13, void 0
ForExpressions ==
    {forExpression("AssignmentExpression", "Identifier", 1, 11),
     forExpression("AssignmentExpression", "Identifier", 2, 12),
     forExpression("AssignmentExpression", "MemberExpression", 0, 13),
     forExpression("UnaryExpression", "none", 0, 14)}

\* var a;  var b;  var a = e;  var a, b;  break;
ForBodyStatements ==
    {forDeclaration(<<forDeclarator(1, 0)>>),
     forDeclaration(<<forDeclarator(2, 0)>>),
     forDeclaration(<<forDeclarator(1, 15)>>),
     forDeclaration(<<forDeclarator(1, 0), forDeclarator(2, 0)>>),
     forNode("BreakStatement", "none", <<>>, <<>>, <<>>)}

ForStatements(inits, statements) ==
    {forNode("ForStatement", "SequenceExpression", es, body, <<>>) :
        es \in UNION {[1..n -> ForExpressions] : n \in 2..inits},
        body \in UNION {[1..n -> ForBodyStatements] : n \in 0..statements}}
    \cup {forNode("ForStatement", "AssignmentExpression", <<e>>, body, <<>>) :
             e \in {forExpression("AssignmentExpression", "Identifier", 1, 11)},
             body \in UNION {[1..n -> ForBodyStatements] : n \in 0..1}}
    \cup {forNode("ForStatement", "none", <<>>, <<>>, <<>>)}

ForPrograms(inits, statements) ==
    {<<s>> : s \in ForStatements(inits, statements)}
    \cup {<<forNode("ExpressionStatement", "none", <<>>, <<>>, <<>>), s>> : s \in ForStatements(inits, statements)}

TransformForLoopInit ==
    /\ mode = "transformForLoop"
    /\ input \in ForPrograms(MaxInit, MaxLoopBody)
    /\ ast = input
    /\ cur = 1
    /\ changes = 0
    /\ run = 0
    /\ revisit = FALSE
    /\ call = <<>>
    /\ pc = "traverse"
    /\ log = <<>>
    /\ scope = [uids |-> {}]
    /\ globalState = EmptyState

\* the visitor on the for statement at cur: the declarations are inserted
\* before it, the traversal goes on behind it
ForStatementEnter ==
    /\ mode = "transformForLoop" /\ pc = "traverse"
    /\ cur <= Len(ast)
    /\ ast[cur].type = "ForStatement"
    /\ LET r == forStatementVisit(ast[cur])
       IN  /\ ast' = SubSeq(ast, 1, cur - 1) \o r \o SubSeq(ast, cur + 1, Len(ast))
           /\ cur' = cur + Len(r)
    /\ UNCHANGED <<mode, input, changes, run, revisit, call, pc, log, scope, globalState>>

ForOtherNode ==
    /\ mode = "transformForLoop" /\ pc = "traverse"
    /\ cur <= Len(ast)
    /\ ast[cur].type # "ForStatement"
    /\ cur' = cur + 1
    /\ UNCHANGED <<mode, input, ast, changes, run, revisit, call, pc, log, scope,
                   globalState>>

\* the traversal is over: this.reParse()
ForTraversed ==
    /\ mode = "transformForLoop" /\ pc = "traverse"
    /\ cur > Len(ast)
    /\ pc' = "done"
    /\ run' = run + 1
    /\ UNCHANGED <<mode, input, ast, cur, changes, revisit, call, log, scope,
                   globalState>>

TransformForLoopNext ==
    \/ ForStatementEnter
    \/ ForOtherNode
    \/ ForTraversed

SpecTransformForLoop == TransformForLoopInit /\ [][TransformForLoopNext]_vars

\* the for statement of the input
C24Loop == input[Len(input)]

\* an assignment  name = expr  to an identifier
C24Hoistable(e) == e.type = "AssignmentExpression" /\ e.leftType = "Identifier"

\* the statements  var name = expr;  of the assignments, in their order
C24Declarations ==
    LET made == SelectSeq(C24Loop.expressions, C24Hoistable)
    IN  [i \in 1..Len(made) |-> forDeclaration(<<forDeclarator(made[i].name, made[i].right)>>)]

\* the body without the declarators  var name;  of the hoisted names
C24Body ==
    removeDeclarators(C24Loop.body,
                      {C24Loop.expressions[i].name :
                          i \in {j \in 1..Len(C24Loop.expressions) :
                                    C24Hoistable(C24Loop.expressions[j])}})

\* C24: when transformForLoop has run on a for whose init is a comma
\* expression, the statements  var name = expr;  of its assignments to
\* identifiers stand before the for in the order of the init, the init
\* holds the other expressions in their order (an assignment to a member
\* as well: no expression is in neither place), and the declarators
\* var name;  of the hoisted names are gone from the body of the loop.
C24Hoisted ==
    (mode = "transformForLoop" /\ pc = "done"
       /\ C24Loop.initType = "SequenceExpression") =>
        ast = SubSeq(input, 1, Len(input) - 1)
              \o C24Declarations
              \o <<[C24Loop EXCEPT
                      !.expressions = SelectSeq(@, LAMBDA e : ~C24Hoistable(e)),
                      !.body = C24Body]>>

(***************************************************************************)
(* calcBinary, the second traversal: the UnaryExpression visitor.  The     *)
(* inputs are unary operators over an array, a number or an identifier;    *)
(* they hold no binary expression, so the first traversal and its reParse  *)
(* leave them as they are.                                                 *)
(***************************************************************************)
\* most unary operators in an input
MaxUnary == 3

arrayExpression(elements) == [t |-> "ArrayExpression", v |-> 0, es |-> elements]

isUnaryExpression(e) == e.t = "UnaryExpression"

isArrayExpression(e) == e.t = "ArrayExpression"

\* the UnaryExpression visitor on the node at path: the new program and
\* whether the path was told to skip
unaryVisit(root, path) ==
    LET n == nodeAt(root, path)
        argument == n.es[1]
        same == [ast |-> root, skip |-> FALSE]
    IN  IF n.v # "!" THEN same
        ELSE IF isUnaryExpression(argument)
        THEN (IF isArrayExpression(argument.es[1]) /\ Len(argument.es[1].es) = 0
              THEN [ast |-> replaceWith(root, path, BooleanLiteral(TRUE)), skip |-> TRUE]
              ELSE same)
        ELSE IF isArrayExpression(argument)
        THEN (IF Len(argument.es) = 0
              THEN [ast |-> replaceWith(root, path, BooleanLiteral(FALSE)), skip |-> TRUE]
              ELSE same)
        ELSE IF isNumericLiteral(argument)
        THEN (IF argument.v = 0
              THEN [ast |-> replaceWith(root, path, BooleanLiteral(TRUE)), skip |-> FALSE]
              ELSE IF argument.v = 1
              THEN [ast |-> replaceWith(root, path, BooleanLiteral(FALSE)), skip |-> FALSE]
              ELSE same)
        ELSE same

\* ---- the inputs --------------------------------------------------------
UnaryLeaves ==
    {arrayExpression(<<>>), arrayExpression(<<NumericLiteral(1)>>),
     NumericLiteral(0), NumericLiteral(1), NumericLiteral(2), Id(1)}

UnaryOperators == {"!", "typeof", "~", "-", "+", "void"}

UnaryTrees[n \in 0..MaxUnary] ==
    IF n = 0 THEN UnaryLeaves
    ELSE {unaryExpression(o, e) : o \in UnaryOperators, e \in UnaryTrees[n - 1]}

CalcUnaryInit ==
    /\ mode = "calcBinary.UnaryExpression"
    /\ input \in UNION {UnaryTrees[n] : n \in 1..MaxUnary}
    /\ ast = input
    /\ cur = <<<<>>>>
    /\ changes = 0
    /\ run = 1
    /\ revisit = FALSE
    /\ call = <<>>
    /\ pc = "traverse" /\ log = <<>> /\ scope = <<>>
    /\ globalState = EmptyState

\* the traversal stands on a unary expression: the visitor runs; the
\* argument is visited next unless the node was replaced (a boolean
\* literal has no children) or the path told to skip
UnaryExpressionEnter ==
    /\ mode = "calcBinary.UnaryExpression" /\ pc = "traverse"
    /\ cur # <<>>
    /\ isUnaryExpression(nodeAt(ast, Head(cur)))
    /\ LET r == unaryVisit(ast, Head(cur))
       IN  /\ ast' = r.ast
           /\ cur' = IF r.skip \/ r.ast # ast
                     THEN Tail(cur)
                     ELSE <<Head(cur) \o <<1>>>> \o Tail(cur)
    /\ UNCHANGED <<mode, input, changes, run, revisit, call, pc, log, scope, globalState>>

\* a node the visitor is not registered for
UnaryOtherNode ==
    /\ mode = "calcBinary.UnaryExpression" /\ pc = "traverse"
    /\ cur # <<>>
    /\ ~isUnaryExpression(nodeAt(ast, Head(cur)))
    /\ cur' = Tail(cur)
    /\ UNCHANGED <<mode, input, ast, changes, run, revisit, call, pc, log, scope, globalState>>

\* the second traversal is over: this.reParse()
UnaryTraversed ==
    /\ mode = "calcBinary.UnaryExpression" /\ pc = "traverse"
    /\ cur = <<>>
    /\ pc' = "done"
    /\ UNCHANGED <<mode, input, ast, cur, changes, run, revisit, call, log, scope, globalState>>

CalcUnaryNext ==
    \/ UnaryExpressionEnter
    \/ UnaryOtherNode
    \/ UnaryTraversed

SpecCalcUnary == CalcUnaryInit /\ [][CalcUnaryNext]_vars

\* the JavaScript value of an expression: of kind number (n), NaN,
\* boolean (n is 1 for true), string (typeof gives a string that is not
\* empty), undefined, object (an array; n is the number it converts to)
\* or unknown
C25Of(k, n) == [k |-> k, n |-> n]

C25ToNumber(a) ==
    IF a.k \in {"number", "boolean", "object"} THEN C25Of("number", a.n)
    ELSE IF a.k = "unknown" THEN a
    ELSE C25Of("NaN", 0)

C25Truthy(a) ==
    CASE a.k \in {"number", "boolean"} -> a.n # 0
      [] a.k \in {"string", "object"} -> TRUE
      [] OTHER -> FALSE

RECURSIVE C25Value(_)
C25Value(e) ==
    CASE e.t = "NumericLiteral" -> C25Of("number", e.v)
      [] e.t = "BooleanLiteral" -> C25Of("boolean", IF e.v THEN 1 ELSE 0)
      [] e.t = "ArrayExpression" ->
            C25Of("object", IF e.es = <<>> THEN 0 ELSE e.es[1].v)
      [] e.t = "Identifier" -> C25Of("unknown", 0)
      [] e.t = "UnaryExpression" ->
            LET a == C25Value(e.es[1])
                number == C25ToNumber(a)
            IN  CASE e.v = "typeof" -> C25Of("string", 0)
                  [] e.v = "void" -> C25Of("undefined", 0)
                  [] a.k = "unknown" -> a
                  [] e.v = "!" -> C25Of("boolean", IF C25Truthy(a) THEN 0 ELSE 1)
                  [] e.v = "+" -> number
                  [] e.v = "-" ->
                        IF number.k = "NaN" THEN number ELSE C25Of("number", -number.n)
                  [] e.v = "~" ->
                        IF number.k = "NaN" THEN C25Of("number", -1)
                        ELSE C25Of("number", -number.n - 1)

C25Not(e) == e.t = "UnaryExpression" /\ e.v = "!"

C25EmptyArray(e) == e.t = "ArrayExpression" /\ e.es = <<>>

\* the four shapes  !![]  ![]  !0  !1
C25Shape(e) ==
    /\ C25Not(e)
    /\ \/ C25Not(e.es[1]) /\ C25EmptyArray(e.es[1].es[1])
       \/ C25EmptyArray(e.es[1])
       \/ e.es[1].t = "NumericLiteral" /\ e.es[1].v \in {0, 1}

\* out is what allowed replacements make of in: a node of one of the four
\* shapes may have become the boolean literal of its value
RECURSIVE C25Allowed(_, _)
C25Allowed(in, out) ==
    \/ /\ C25Shape(in)
       /\ out = BooleanLiteral(C25Value(in).n = 1)
    \/ /\ out.t = in.t
       /\ in.t \in {"UnaryExpression", "ArrayExpression"} => out.v = in.v
       /\ in.t \notin {"UnaryExpression", "ArrayExpression"} => out = in
       /\ Len(out.es) = Len(in.es)
       /\ \A i \in 1..Len(in.es) : C25Allowed(in.es[i], out.es[i])

\* C25: the second traversal of calcBinary replaces a unary expression
\* only when it is  !![]  ![]  !0  or  !1, and then by the boolean literal
\* of its JavaScript value; every other unary expression (! over typeof,
\* ~, - or void of an empty array, ! over an array with elements or over
\* another number) is left as it was.
C25BooleanCollapse ==
    mode = "calcBinary.UnaryExpression" => C25Allowed(input, ast)

(***************************************************************************)
(* C26.  removeUnusedBlock, the renaming of the declarations of a branch   *)
(* that is put in the place of its if statement.                           *)
(***************************************************************************)
\* the branch a constant test takes, if any
C26Taken(n) ==
    IF evaluateTruthy(testOf(n)) = "true" THEN <<consequentOf(n)>>
    ELSE IF evaluateTruthy(testOf(n)) = "false" THEN alternateOf(n)
    ELSE <<>>

\* the program declares the name 1, then has an if statement whose taken
\* branch is a block of simple statements that declares the name 1 too
C26Case ==
    /\ Len(input.body) = 3
    /\ input.body[1] = letDeclaration(1, NumericLiteral(2))
    /\ isIfStatement(input.body[2])
    /\ C26Taken(input.body[2]) # <<>>
    /\ C26Taken(input.body[2])[1] \in Blocks
    /\ \E i \in 1..Len(C26Taken(input.body[2])[1].body) :
          C26Taken(input.body[2])[1].body[i].id = 1

\* the expression with the references to name rewritten to newName
RECURSIVE C26Rewritten(_, _, _)
C26Rewritten(e, name, newName) ==
    IF isIdentifier(e) THEN (IF e.v = name THEN Id(newName) ELSE e)
    ELSE [e EXCEPT !.es = [i \in 1..Len(e.es) |-> C26Rewritten(e.es[i], name, newName)]]

\* the statements of the block with its binding of name, and every
\* reference to it, renamed to newName
C26Alpha(body, name, newName) ==
    [i \in 1..Len(body) |->
        [body[i] EXCEPT !.id = IF @ = name THEN newName ELSE @,
                        !.e = C26Rewritten(@, name, newName)]]

\* C26: when the branch taken declares a name the scope around the if
\* statement has a binding for, the statements put in place of the if have
\* the declaration under a name that is new to the program, and every
\* reference to the binding of the branch has that new name, so that it
\* still refers to the declaration of the branch and the references to
\* the outer binding still refer to the outer one.
C26AlphaRenamed ==
    (mode = "removeUnusedBlock" /\ pc = "done" /\ C26Case) =>
        \E newName \in 10..39 :
            /\ newName \notin BlockNames
            /\ ast = program(<<input.body[1]>>
                             \o C26Alpha(C26Taken(input.body[2])[1].body, 1, newName)
                             \o <<input.body[3]>>)

(***************************************************************************)
(* C27.  saveAllObject and the objects whose name is assigned again.       *)
(***************************************************************************)
\* the member assignments of the input on the binding declared at start
C27Assignments(start) ==
    {p \in 1..Len(input) :
        /\ input[p].type = "AssignmentExpression"
        /\ input[p].key # NoKey
        /\ bindingStart(input, input[p].id, input[p].sc) = start}

\* C27: an assignment name["key"] = value is put into the recorded object
\* and removed only when the binding of name is constant; when the name is
\* assigned or declared again in its scope, the object recorded for it has
\* the properties it had and every assignment to a member of it is where
\* it was.
C27ConstantOnly ==
    mode = "saveAllObject" =>
        \A start \in 1..Len(input) :
            (isObjectBinding(input, start) /\ objectViolations(input, start) # {}) =>
                /\ ast[start].props = input[start].props
                /\ \A p \in C27Assignments(start) : ast[p] = input[p]

(***************************************************************************)
(* Several Deob instances in one process.  globalState is a variable of    *)
(* the module utils/ast.ts: every instance reads and writes the same one.  *)
(* ast holds the program of each instance, call.constructed the instances  *)
(* made so far, log the operations in the order they ran.  A program is a  *)
(* list of statements as for the search for the decoders; a declaration    *)
(* whose init is an object expression is what saveAllObject records.       *)
(***************************************************************************)
\* most Deob instances
MaxInstances == 2

\* most operations in a run
MaxOperations == 4

Instances == 1..MaxInstances

\* function f() {} f();   var v = function () {}; v();   var o = {};
InstancePrograms ==
    {<<decoderNode("FunctionDeclaration", 1, "none", 0, <<>>, 0, 0, <<>>),
       decoderNode("ExpressionStatement", 0, "none", 0, <<>>, 0, 0, <<use(1, "callee")>>)>>,
     <<decoderNode("VariableDeclaration", 2, "FunctionExpression", 0, <<>>, 0, 0, <<>>),
       decoderNode("ExpressionStatement", 0, "none", 0, <<>>, 0, 0, <<use(2, "callee")>>)>>,
     <<decoderNode("VariableDeclaration", 3, "ObjectExpression", 0, <<>>, 0, 0, <<>>)>>}

\* saveAllObject, first traversal: globalState.objectVariables is emptied,
\* then every declarator initialised with an object expression is recorded
\* under its start and name
recordedObjects(body) ==
    {[start |-> p, name |-> body[p].id] :
        p \in {q \in 1..Len(body) :
                  body[q].type = "VariableDeclaration" /\ body[q].init = "ObjectExpression"}}

InstancesInit ==
    /\ mode = "instances"
    /\ input = <<>>
    /\ ast = [i \in Instances |-> <<>>]
    /\ cur = 1
    /\ changes = 0
    /\ run = 0
    /\ revisit = FALSE
    /\ call = [constructed |-> {}]
    /\ pc = "idle"
    /\ log = <<>>
    /\ scope = [uids |-> {}]
    /\ globalState = EmptyState

\* an operation of instance i has run and left the program and the state
Operated(fn, i, body, state) ==
    /\ mode = "instances"
    /\ Len(log) < MaxOperations
    /\ ast' = [ast EXCEPT ![i] = body]
    /\ globalState' = state
    /\ log' = Append(log, [fn |-> fn, instance |-> i])
    /\ UNCHANGED <<mode, input, cur, changes, run, revisit, pc, scope>>

\* new Deob(rawCode): globalState is assigned a new empty state
NewDeob ==
    \E i \in Instances, rawCode \in InstancePrograms :
        /\ i \notin call.constructed
        /\ call' = [call EXCEPT !.constructed = @ \cup {i}]
        /\ Operated("constructor", i, rawCode, EmptyState)

InstanceFindDecryptFnByCallCount ==
    \E i \in Instances :
        /\ i \in call.constructed
        /\ LET r == findDecryptFnByCallCount(ast[i], globalState.decryptFnList, 1, FALSE)
           IN  Operated("findDecryptFnByCallCount", i, r.ast,
                        [globalState EXCEPT !.decryptFnList = r.list])
        /\ UNCHANGED call

InstanceDesignDecryptFn ==
    \E i \in Instances, decryptFnList \in {<<1>>, <<2>>} :
        /\ i \in call.constructed
        /\ LET r == designDecryptFn(ast[i], globalState.decryptFnList, decryptFnList)
           IN  Operated("designDecryptFn", i, r.ast,
                        [globalState EXCEPT !.decryptFnList = r.list])
        /\ UNCHANGED call

InstanceSaveAllObject ==
    \E i \in Instances :
        /\ i \in call.constructed
        /\ Operated("saveAllObject", i, ast[i],
                    [globalState EXCEPT !.objectVariables = recordedObjects(ast[i])])
        /\ UNCHANGED call

InstancesNext ==
    \/ NewDeob
    \/ InstanceFindDecryptFnByCallCount
    \/ InstanceDesignDecryptFn
    \/ InstanceSaveAllObject

SpecInstances == InstancesInit /\ [][InstancesNext]_vars

C29Step ==
    (/\ mode = "instances"
     /\ Len(log') = Len(log) + 1
     /\ call.constructed \ {log'[Len(log')].instance} # {})
        => globalState' = globalState

\* C29: the decoder list and the recorded objects an instance works with
\* are its own: an operation on another instance (its construction,
\* designDecryptFn, findDecryptFnByCallCount, saveAllObject) leaves the
\* decoder list and the objects that the instances made before observe as
\* they were.
C29Owned == [][C29Step]_vars

====
